---- MODULE Spec2Model ----
(***************************************************************************)
(* Model of the stock_themes ensemble theme extractor.                     *)
(*                                                                         *)
(* Numbers.  Confidences are kept in thousandths (0.67 is 670), source     *)
(* weights in hundredths (0.85 is 85); a confidence k stands for the float *)
(* nearest to k / 1000, which is what round(x, 3) and a literal give.      *)
(* round(x, 3) is Round3.  It takes the exact value of x as a fraction and *)
(* the float x that the code computed: the fraction decides the nearest    *)
(* thousandth wherever it is not half way between two thousandths (the     *)
(* float is within 2^-40 of it), and on a half thousandth the float        *)
(* decides, as Python rounds the binary value the float holds.             *)
(*                                                                         *)
(* Names.  Theme names are strings.  str.strip().lower() is StripLower,    *)
(* which is given on the raw names the model feeds in (RawForms); every    *)
(* other name used is already trimmed and lower-case.                      *)
(***************************************************************************)
EXTENDS Integers, Sequences, FiniteSets, TLC

VARIABLES
    profile,        \* the CompanyProfile handed to the call
    env,            \* what the embedding model does during the call
    use_llm,        \* EnsembleExtractor.use_llm
    max_themes,     \* EnsembleExtractor.max_themes
    filter_result,  \* extract's local filter_result
    all_themes,     \* the raw themes collected so far
    slot,           \* position in the list of extractors
    ranked,         \* what _merge_and_rank returned
    result_themes,  \* ThemeResult.themes
    raised,         \* the exception that left the call, or None
    pc,
    metadata,       \* ThemeResult.metadata
    filter_calls,   \* how often semantic_filter ran during the call
    earlier,        \* the ThemeResult.themes of the calls before this one
    embedder,       \* semantic/embedder.py: its globals and its cache file
    norm,           \* a call of ThemeNormalizer.normalize, applied twice
    llm,            \* a call of LLMExtractor.extract
    db,             \* the tables of the SQLite database
    batch,          \* a run of run_batch
    pipeline,       \* a call of DataPipeline._merge
    chunker,        \* a call of chunk_text
    semantic        \* direct calls of semantic_filter and get_theme_embeddings

vars == <<profile, env, use_llm, max_themes, filter_result, all_themes, slot,
          ranked, result_themes, raised, pc, metadata, filter_calls, earlier,
          embedder, norm, llm, db, batch, pipeline, chunker, semantic>>

\* the state of a part of the program that takes no part in a behaviour
Idle == [idle |-> TRUE]

\* the variables of the parts outside one call of extract
outside == <<norm, llm, db, batch, pipeline, chunker, semantic>>

\* ------------------------------------------------------------------------
\* Bounds of the model
\* ------------------------------------------------------------------------

\* max_themes of an EnsembleExtractor is an int that __init__ stores as it is
\* given: it is drawn from -MaxMaxThemes..MaxMaxThemes
MaxMaxThemes == 2

\* ------------------------------------------------------------------------
\* models.py, taxonomy/normalizer.py
\* ------------------------------------------------------------------------

None == "None"

\* filter_result: FilterResult | None = None
NoFilterResult == [is_none |-> TRUE]

ExtractionMethod == {"sic", "keyword", "patent", "embedding", "news", "social", "llm"}

\* a Theme an extractor builds: canonical_category keeps its default
Theme(n, c, s, e) ==
    [name |-> n, confidence |-> c, source |-> s, evidence |-> e,
     canonical_category |-> None]

\* the names a list of themes carries
Names(seq) == {seq[i].name : i \in 1..Len(seq)}

ALIASES ==
    [k \in {"ai", "ml", "ev", "evs", "iot", "vr", "ar", "xr", "saas", "paas",
            "iaas", "cyber security", "cyber-security", "self-driving",
            "driverless", "online retail", "digital commerce", "ecommerce",
            "chips", "chip", "biotech", "medtech", "green energy", "clean tech",
            "smart watch", "smartwatch", "wearables", "data analytics",
            "data science", "analytics", "digital advertising",
            "advertising technology", "programmatic advertising", "gen ai",
            "genai", "llm", "large language model", "chatbot", "gpt",
            "deep learning", "neural network", "neural networks",
            "telemedicine", "pharma", "pharmaceutical", "biopharma",
            "biopharmaceutical", "crypto", "bitcoin", "ethereum", "neobank",
            "digital bank", "digital banking", "mobile payments",
            "contactless payments", "uav", "unmanned aerial", "3d print",
            "additive manufacturing", "reit", "property", "solar energy",
            "solar power", "wind power", "offshore wind", "ev charging",
            "charging infrastructure", "lithium-ion", "solid-state battery",
            "energy transition", "decarbonization", "net zero",
            "carbon neutral", "metaverse", "web3", "web 3", "defi",
            "decentralized finance", "nft", "non-fungible", "pet care",
            "veterinary", "senior care", "elderly care", "work from home",
            "wfh", "hybrid work", "freelance", "gpu", "tpu", "ai accelerator",
            "cloud infrastructure", "hyperscale", "colocation"} |->
     CASE k \in {"ai", "deep learning", "neural network", "neural networks"}
               -> "artificial intelligence"
       [] k = "ml" -> "machine learning"
       [] k \in {"ev", "evs", "ev charging", "charging infrastructure"}
               -> "electric vehicles"
       [] k = "iot" -> "internet of things"
       [] k = "vr" -> "virtual reality"
       [] k \in {"ar", "xr"} -> "augmented reality"
       [] k \in {"saas", "paas", "iaas"} -> "cloud computing"
       [] k \in {"cyber security", "cyber-security"} -> "cybersecurity"
       [] k \in {"self-driving", "driverless"} -> "autonomous driving"
       [] k \in {"online retail", "digital commerce", "ecommerce"} -> "e-commerce"
       [] k \in {"chips", "chip"} -> "semiconductors"
       [] k = "biotech" -> "biotechnology"
       [] k = "medtech" -> "medical devices"
       [] k = "green energy" -> "renewable energy"
       [] k = "clean tech" -> "cleantech"
       [] k \in {"smart watch", "smartwatch", "wearables"} -> "wearable technology"
       [] k \in {"data analytics", "data science", "analytics"} -> "big data"
       [] k \in {"digital advertising", "advertising technology",
                 "programmatic advertising"} -> "adtech"
       [] k \in {"gen ai", "genai", "llm", "large language model", "chatbot",
                 "gpt"} -> "generative ai"
       [] k = "telemedicine" -> "telehealth"
       [] k \in {"pharma", "pharmaceutical", "biopharma", "biopharmaceutical"}
               -> "drug discovery"
       [] k \in {"crypto", "bitcoin", "ethereum"} -> "cryptocurrency"
       [] k \in {"neobank", "digital bank", "digital banking"} -> "fintech"
       [] k \in {"mobile payments", "contactless payments"} -> "digital payments"
       [] k \in {"uav", "unmanned aerial"} -> "drones"
       [] k \in {"3d print", "additive manufacturing"} -> "3d printing"
       [] k \in {"reit", "property"} -> "real estate"
       [] k \in {"solar energy", "solar power"} -> "solar"
       [] k \in {"wind power", "offshore wind"} -> "wind energy"
       [] k \in {"lithium-ion", "solid-state battery"} -> "battery technology"
       [] k \in {"energy transition", "decarbonization", "net zero",
                 "carbon neutral"} -> "clean energy"
       [] k = "metaverse" -> "metaverse"
       [] k \in {"web3", "web 3"} -> "blockchain"
       [] k \in {"defi", "decentralized finance"} -> "defi"
       [] k \in {"nft", "non-fungible"} -> "nft"
       [] k \in {"pet care", "veterinary"} -> "pet economy"
       [] k \in {"senior care", "elderly care"} -> "aging population"
       [] k \in {"work from home", "wfh", "hybrid work"} -> "remote work"
       [] k = "freelance" -> "gig economy"
       [] k \in {"gpu", "tpu", "ai accelerator"} -> "ai chips"
       [] k = "cloud infrastructure" -> "cloud infrastructure"
       [] k \in {"hyperscale", "colocation"} -> "data center"]

\* str.strip().lower() on the raw names that are not already clean
RawForms ==
    [r \in {"AI", " Technology ", "Cloud Computing", " gpt", "Growth"} |->
     CASE r = "AI" -> "ai"
       [] r = " Technology " -> "technology"
       [] r = "Cloud Computing" -> "cloud computing"
       [] r = " gpt" -> "gpt"
       [] r = "Growth" -> "growth"]

StripLower(s) == IF s \in DOMAIN RawForms THEN RawForms[s] ELSE s

\* normalize with the alias looked up on the string as given
normalize_AliasOnRaw(theme) ==
    IF theme \in DOMAIN ALIASES THEN ALIASES[theme] ELSE StripLower(theme)

\* ThemeNormalizer.normalize
normalize(theme) ==
    LET cleaned == StripLower(theme)
    IN  IF cleaned \in DOMAIN ALIASES THEN ALIASES[cleaned] ELSE cleaned

\* taxonomy/themes.py THEME_CATEGORIES: the categories of two canonical themes
THEME_CATEGORIES ==
    [k \in {"artificial intelligence", "cloud computing"} |-> "technology"]

\* ThemeNormalizer.get_category: THEME_CATEGORIES.get(normalized)
get_category(theme) ==
    LET normalized == normalize(theme)
    IN  IF normalized \in DOMAIN THEME_CATEGORIES THEN THEME_CATEGORIES[normalized]
        ELSE None

\* ------------------------------------------------------------------------
\* extraction/ensemble.py: tables
\* ------------------------------------------------------------------------

SOURCE_WEIGHTS ==
    [s \in ExtractionMethod |->
     CASE s = "llm" -> 100
       [] s = "embedding" -> 85
       [] s = "keyword" -> 80
       [] s = "patent" -> 70
       [] s = "news" -> 60
       [] s = "sic" -> 50
       [] s = "social" -> 40]

\* SOURCE_WEIGHTS.get(t.source, 0.5)
DefaultWeight == 50

\* mutant: every source weighs the same (a plain average)
SourceWeight_Unweighted(s) == DefaultWeight

SourceWeight(s) == IF s \in DOMAIN SOURCE_WEIGHTS THEN SOURCE_WEIGHTS[s] ELSE DefaultWeight

MULTI_SOURCE_BONUS == 50

MAX_MULTI_SOURCE_BONUS == 150

BLOCKED_THEMES ==
    {"company", "corporation", "business", "enterprise", "firm", "organization",
     "stock", "share", "equity", "investment", "revenue", "profit", "earnings",
     "dividend", "capital", "fund", "asset", "portfolio", "growth", "value",
     "market", "trading", "securities", "financial", "fiscal", "monetary",
     "technology", "industry", "sector", "services", "products", "solutions",
     "operations", "management", "strategy", "innovation", "development",
     "research", "manufacturing", "consumer", "retail", "commercial",
     "global", "international", "domestic", "public", "private",
     "large cap", "mid cap", "small cap", "blue chip"}

\* ------------------------------------------------------------------------
\* Arithmetic helpers
\* ------------------------------------------------------------------------

Min(a, b) == IF a <= b THEN a ELSE b

Max(a, b) == IF a >= b THEN a ELSE b

RECURSIVE SumSeq(_)
SumSeq(s) == IF s = <<>> THEN 0 ELSE Head(s) + SumSeq(Tail(s))

\* ------------------------------------------------------------------------
\* Python float: IEEE 754 binary64, round to nearest, ties to even.
\* A natural number of any size is a sequence of limbs below LimbBase, the
\* lowest first, without high zero limbs (TLC's integers have 32 bits).  A
\* float is <<m, e>> with the value m * 2^e and m below 2^53; the values of
\* the program are finite, not negative and not subnormal.
\* ------------------------------------------------------------------------

LimbBase == 2^15

RECURSIVE BigTrim(_)
BigTrim(a) ==
    IF a # <<>> /\ a[Len(a)] = 0 THEN BigTrim(SubSeq(a, 1, Len(a) - 1)) ELSE a

RECURSIVE BigOfInt(_)
BigOfInt(n) ==
    IF n = 0 THEN <<>> ELSE <<n % LimbBase>> \o BigOfInt(n \div LimbBase)

RECURSIVE BigToInt(_)
BigToInt(a) ==
    IF a = <<>> THEN 0 ELSE Head(a) + LimbBase * BigToInt(Tail(a))

Limb(a, i) == IF i >= 1 /\ i <= Len(a) THEN a[i] ELSE 0

RECURSIVE BigAddCarry(_, _, _)
BigAddCarry(a, b, carry) ==
    IF a = <<>> /\ b = <<>>
    THEN (IF carry = 0 THEN <<>> ELSE <<carry>>)
    ELSE LET x == Limb(a, 1) + Limb(b, 1) + carry
         IN  <<x % LimbBase>>
             \o BigAddCarry(SubSeq(a, 2, Len(a)), SubSeq(b, 2, Len(b)),
                            x \div LimbBase)

BigAdd(a, b) == BigAddCarry(a, b, 0)

\* a - b for a >= b
RECURSIVE BigSubBorrow(_, _, _)
BigSubBorrow(a, b, borrow) ==
    IF a = <<>> THEN <<>>
    ELSE LET x == Head(a) - Limb(b, 1) - borrow
         IN  <<x % LimbBase>>
             \o BigSubBorrow(Tail(a), SubSeq(b, 2, Len(b)),
                             IF x < 0 THEN 1 ELSE 0)

BigSub(a, b) == BigTrim(BigSubBorrow(a, b, 0))

RECURSIVE BigLess(_, _)
BigLess(a, b) ==
    IF Len(a) # Len(b) THEN Len(a) < Len(b)
    ELSE IF a = <<>> THEN FALSE
    ELSE IF a[Len(a)] # b[Len(b)] THEN a[Len(a)] < b[Len(b)]
    ELSE BigLess(BigTrim(SubSeq(a, 1, Len(a) - 1)),
                 BigTrim(SubSeq(b, 1, Len(b) - 1)))

\* a * k for 0 <= k < LimbBase
RECURSIVE BigTimesCarry(_, _, _)
BigTimesCarry(a, k, carry) ==
    IF a = <<>> THEN (IF carry = 0 THEN <<>> ELSE <<carry>>)
    ELSE LET x == Head(a) * k + carry
         IN  <<x % LimbBase>> \o BigTimesCarry(Tail(a), k, x \div LimbBase)

BigTimes(a, k) == BigTrim(BigTimesCarry(a, k, 0))

RECURSIVE BigMul(_, _)
BigMul(a, b) ==
    IF a = <<>> \/ b = <<>> THEN <<>>
    ELSE BigTrim(BigAdd(BigTimes(b, Head(a)), <<0>> \o BigMul(Tail(a), b)))

\* a * 2^n
BigShl(a, n) ==
    IF a = <<>> THEN <<>>
    ELSE BigTimes([i \in 1..(n \div 15) |-> 0] \o a, 2^(n % 15))

\* a \div 2^n
BigShr(a, n) ==
    LET high == SubSeq(a, (n \div 15) + 1, Len(a))
        p == 2^(n % 15)
    IN  BigTrim([i \in 1..Len(high) |->
                    (high[i] \div p) + (Limb(high, i + 1) % p) * (LimbBase \div p)])

RECURSIVE BitLength(_)
BitLength(n) == IF n = 0 THEN 0 ELSE 1 + BitLength(n \div 2)

BigBits(a) == IF a = <<>> THEN 0 ELSE 15 * (Len(a) - 1) + BitLength(a[Len(a)])

\* the largest d in lo..hi with b * d <= r, given that b * lo <= r
RECURSIVE QuotientDigit(_, _, _, _)
QuotientDigit(r, b, lo, hi) ==
    IF lo = hi THEN lo
    ELSE LET mid == (lo + hi + 1) \div 2
         IN  IF BigLess(r, BigTimes(b, mid))
             THEN QuotientDigit(r, b, lo, mid - 1)
             ELSE QuotientDigit(r, b, mid, hi)

\* long division limb by limb, from limb j of a downward; qr is the quotient
\* and the remainder of the limbs above limb j.  The top limb of b is at
\* least LimbBase / 2, which keeps the digit within a few steps of the
\* quotient of the top limbs.
RECURSIVE BigDivFrom(_, _, _, _)
BigDivFrom(a, b, j, qr) ==
    IF j < 1 THEN qr
    ELSE LET r2 == BigTrim(<<a[j]>> \o qr[2])
             top == Limb(r2, Len(b) + 1) * LimbBase + Limb(r2, Len(b))
             hi == top \div b[Len(b)]
             d == QuotientDigit(r2, b, top \div (b[Len(b)] + 1),
                                IF hi < LimbBase THEN hi ELSE LimbBase - 1)
         IN  BigDivFrom(a, b, j - 1, <<<<d>> \o qr[1], BigSub(r2, BigTimes(b, d))>>)

\* <<a \div b, a % b>> for b > 0: both are scaled to bring the top limb of
\* b to LimbBase / 2 or more; the high limbs of a that cannot hold b start
\* as the remainder
BigDivMod(a, b) ==
    LET scale == 15 - BitLength(b[Len(b)])
        as == BigShl(a, scale)
        bs == BigShl(b, scale)
        rest == IF Len(as) < Len(bs) THEN 0 ELSE Len(as) - Len(bs) + 1
        qr == BigDivFrom(as, bs, rest, <<<<>>, SubSeq(as, rest + 1, Len(as))>>)
    IN  <<BigTrim(qr[1]), BigShr(qr[2], scale)>>

\* a / 2^n to the nearest integer, halves to even; `inexact` says that a
\* itself stands for a value a little above a
BigRoundShr(a, n, inexact) ==
    IF n <= 0 THEN BigShl(a, 0 - n)
    ELSE LET q == BigShr(a, n)
             rest == BigSub(a, BigShl(q, n))
             half == BigShl(<<1>>, n - 1)
             up == \/ BigLess(half, rest)
                   \/ rest = half /\ (inexact \/ Limb(q, 1) % 2 = 1)
         IN  IF up THEN BigAdd(q, <<1>>) ELSE q

\* the float nearest to m * 2^e
FloatRound(m, e, inexact) ==
    LET drop == BigBits(m) - 53
    IN  IF drop <= 0 THEN <<m, e>> ELSE <<BigRoundShr(m, drop, inexact), e + drop>>

\* float(n) of an int
FloatOfInt(n) == <<BigOfInt(n), 0>>

FloatAdd(x, y) ==
    IF x[1] = <<>> THEN y
    ELSE IF y[1] = <<>> THEN x
    ELSE IF x[2] <= y[2]
    THEN FloatRound(BigAdd(x[1], BigShl(y[1], y[2] - x[2])), x[2], FALSE)
    ELSE FloatRound(BigAdd(BigShl(x[1], x[2] - y[2]), y[1]), y[2], FALSE)

FloatMul(x, y) ==
    IF x[1] = <<>> \/ y[1] = <<>> THEN <<<<>>, 0>>
    ELSE FloatRound(BigMul(x[1], y[1]), x[2] + y[2], FALSE)

\* x / y: a quotient of more than 55 bits, then rounded; y = 0 gives no
\* float (ZeroDivisionError)
FloatDiv(x, y) ==
    IF y[1] = <<>> THEN <<>>
    ELSE IF x[1] = <<>> THEN x
    ELSE LET limbs == 5 + Len(y[1]) - Len(x[1])
             raise == IF limbs > 0 THEN 15 * limbs ELSE 0
             qr == BigDivMod(BigShl(x[1], raise), y[1])
         IN  FloatRound(qr[1], x[2] - y[2] - raise, qr[2] # <<>>)

FloatLess(x, y) ==
    IF x[2] <= y[2]
    THEN BigLess(x[1], BigShl(y[1], y[2] - x[2]))
    ELSE BigLess(BigShl(x[1], x[2] - y[2]), y[1])

\* min(x, y): y only when it is smaller
FloatMin(x, y) == IF FloatLess(y, x) THEN y ELSE x

\* the float literal n/d, as 0.35 is Decimal(35, 100); also int / int
Decimal(n, d) == FloatDiv(FloatOfInt(n), FloatOfInt(d))

\* round(x, 3) in thousandths: the float's own value, halves to even
RoundFloat3(x) == BigToInt(BigRoundShr(BigTimes(x[1], 1000), 0 - x[2], FALSE))

\* the float of a literal or of a rounded value given in thousandths
Thousandths(k) == Decimal(k, 1000)

\* sum(...) of floats from the int 0, left to right
RECURSIVE FloatSum(_)
FloatSum(seq) ==
    IF seq = <<>> THEN FloatOfInt(0)
    ELSE FloatAdd(FloatSum(SubSeq(seq, 1, Len(seq) - 1)), seq[Len(seq)])

\* round(x, 3) in thousandths, for the float x whose exact value is num / den
\* thousandths
Round3(num, den, x) ==
    LET q == num \div den
        r == num % den
    IN  IF 2 * r < den THEN q
        ELSE IF 2 * r > den THEN q + 1
        ELSE RoundFloat3(x)

\* c is num / den rounded to a nearest integer
IsRounded(c, num, den) == 2 * (c * den - num) \in (0 - den)..den

\* the elements of a set of integers, ascending
Ascending(S) ==
    [k \in 1..Cardinality(S) |->
        CHOOSE i \in S : Cardinality({j \in S : j < i}) = k - 1]

\* ------------------------------------------------------------------------
\* extraction/ensemble.py: EnsembleExtractor._merge_and_rank
\* ------------------------------------------------------------------------

\* one key per raw name: raw names that differ open groups of their own
GroupedKeys_PerRawName(themes) ==
    LET first == {i \in 1..Len(themes) :
                    \A j \in 1..(i - 1) : themes[j].name # themes[i].name}
        idx == Ascending(first)
    IN  [k \in 1..Len(idx) |-> normalize(themes[idx[k]].name)]

\* keys of `grouped` in dict insertion order: each normalized name at the
\* position of its first raw theme
GroupedKeys(themes) ==
    LET first == {i \in 1..Len(themes) :
                    \A j \in 1..(i - 1) :
                        normalize(themes[j].name) # normalize(themes[i].name)}
        idx == Ascending(first)
    IN  [k \in 1..Len(idx) |-> normalize(themes[idx[k]].name)]

\* grouped[normalized]: the raw themes of that name, in list order
GroupOf(themes, normalized_name) ==
    SelectSeq(themes, LAMBDA t : normalize(t.name) = normalized_name)

GroupSources(group) == {group[i].source : i \in 1..Len(group)}

\* mutant: the bonus counts group members instead of distinct sources
SourceBonus_PerMember(group) ==
    Min(MAX_MULTI_SOURCE_BONUS, MULTI_SOURCE_BONUS * (Len(group) - 1))

SourceBonus(group) ==
    Min(MAX_MULTI_SOURCE_BONUS,
        MULTI_SOURCE_BONUS * (Cardinality(GroupSources(group)) - 1))

WeightedSum(group) ==
    SumSeq([i \in 1..Len(group) |->
                group[i].confidence * SourceWeight(group[i].source)])

WeightedCount(group) ==
    SumSeq([i \in 1..Len(group) |-> SourceWeight(group[i].source)])

\* weighted_sum / weighted_count if weighted_count else 0, as the float
AverageFloat(group) ==
    LET weighted_sum ==
            FloatSum([i \in 1..Len(group) |->
                        FloatMul(Thousandths(group[i].confidence),
                                 Decimal(SourceWeight(group[i].source), 100))])
        weighted_count ==
            FloatSum([i \in 1..Len(group) |->
                        Decimal(SourceWeight(group[i].source), 100)])
    IN  IF weighted_count[1] # <<>> THEN FloatDiv(weighted_sum, weighted_count)
        ELSE FloatOfInt(0)

\* source_bonus as the float
SourceBonusFloat(group) ==
    FloatMin(Thousandths(MAX_MULTI_SOURCE_BONUS),
             FloatMul(Thousandths(MULTI_SOURCE_BONUS),
                      FloatOfInt(Cardinality(GroupSources(group)) - 1)))

\* mutant: the sum of average and bonus is not capped at 1.0
FinalConfidence_Uncapped(group) ==
    LET wc == WeightedCount(group)
        den == IF wc # 0 THEN wc ELSE 1
        avg_num == IF wc # 0 THEN WeightedSum(group) ELSE 0
    IN  Round3(avg_num + SourceBonus(group) * den, den,
               FloatAdd(AverageFloat(group), SourceBonusFloat(group)))

\* round(min(1.0, avg_confidence + source_bonus), 3)
FinalConfidence(group) ==
    LET wc == WeightedCount(group)
        den == IF wc # 0 THEN wc ELSE 1
        avg_num == IF wc # 0 THEN WeightedSum(group) ELSE 0
    IN  Round3(Min(1000 * den, avg_num + SourceBonus(group) * den), den,
               FloatMin(FloatOfInt(1),
                        FloatAdd(AverageFloat(group), SourceBonusFloat(group))))

\* mutant: the last member of top confidence wins a tie
Best_Last(group) ==
    group[CHOOSE i \in 1..Len(group) :
            /\ \A j \in 1..Len(group) : group[j].confidence <= group[i].confidence
            /\ \A j \in (i + 1)..Len(group) : group[j].confidence < group[i].confidence]

\* max(group, key=lambda t: t.confidence): the first member of top confidence
Best(group) ==
    group[CHOOSE i \in 1..Len(group) :
            /\ \A j \in 1..Len(group) : group[j].confidence <= group[i].confidence
            /\ \A j \in 1..(i - 1) : group[j].confidence < group[i].confidence]

MergeGroup(normalized_name, group) ==
    [Theme(normalized_name, FinalConfidence(group),
           Best(group).source, Best(group).evidence)
       EXCEPT !.canonical_category = get_category(normalized_name)]

\* mutant: only the generic corporate terms are blocked
IsBlocked_CorporateOnly(normalized_name) ==
    normalized_name \in {"company", "corporation", "business", "enterprise",
                         "firm", "organization"}

IsBlocked(normalized_name) == normalized_name \in BLOCKED_THEMES

\* the list `merged` before it is sorted
Merged(themes) ==
    LET keys == SelectSeq(GroupedKeys(themes), LAMBDA k : ~IsBlocked(k))
    IN  [k \in 1..Len(keys) |-> MergeGroup(keys[k], GroupOf(themes, keys[k]))]

\* mutant: an ascending sort reversed afterwards, which reverses ties
SortByConfidence_TiesReversed(merged) ==
    LET pos(i) == 1 + Cardinality({j \in 1..Len(merged) :
                         \/ merged[j].confidence > merged[i].confidence
                         \/ /\ merged[j].confidence = merged[i].confidence
                            /\ j > i})
    IN  [k \in 1..Len(merged) |-> merged[CHOOSE i \in 1..Len(merged) : pos(i) = k]]

\* merged.sort(key=lambda t: t.confidence, reverse=True): a stable sort
SortByConfidence(merged) ==
    LET pos(i) == 1 + Cardinality({j \in 1..Len(merged) :
                         \/ merged[j].confidence > merged[i].confidence
                         \/ /\ merged[j].confidence = merged[i].confidence
                            /\ j < i})
    IN  [k \in 1..Len(merged) |-> merged[CHOOSE i \in 1..Len(merged) : pos(i) = k]]

merge_and_rank(themes) == SortByConfidence(Merged(themes))

\* mutant: the slice keeps one theme too many
Truncate_OffByOne(rankedList, n) ==
    SubSeq(rankedList, 1, Min(n + 1, Len(rankedList)))

\* ranked[: self.max_themes]
Truncate(rankedList, n) ==
    IF n >= 0 THEN SubSeq(rankedList, 1, Min(n, Len(rankedList)))
    ELSE SubSeq(rankedList, 1, Max(0, Len(rankedList) + n))

\* ------------------------------------------------------------------------
\* _merge_and_rank called on a list of raw themes
\* ------------------------------------------------------------------------

\* the order of the extractors list of _get_extractors; "other" stands for a
\* list of themes whose source is not a key of SOURCE_WEIGHTS
ExtractorOrder ==
    <<"sic", "keyword", "patent", "news", "social", "embedding", "llm", "other">>

\* what one extractor may hand back: a list of raw themes, possibly empty
RawMenu ==
    [e \in {"sic", "keyword", "patent", "news", "social", "embedding", "llm", "other"} |->
     CASE e = "sic" ->
            { <<>>,
              << Theme("technology", 500, "sic", "Yahoo Finance sector") >>,
              << Theme("software", 650, "sic", "SIC code 7372"),
                 Theme("technology", 500, "sic", "Yahoo Finance sector") >>,
              << Theme("cloud computing", 650, "sic", "SIC code 7374") >>,
              << Theme("artificial intelligence", 400, "sic", "SIC prefix 73xx") >> }
       [] e = "keyword" ->
            { <<>>,
              << Theme("artificial intelligence", 670, "keyword", "kw ai") >>,
              << Theme("artificial intelligence", 900, "keyword", "kw ai"),
                 Theme("cloud computing", 670, "keyword", "kw cloud") >>,
              << Theme("cloud computing", 350, "keyword", "kw cloud") >> }
       [] e = "patent" ->
            { <<>>,
              << Theme("artificial intelligence", 673, "patent", "3 patents") >>,
              << Theme("cloud computing", 850, "patent", "9 patents") >> }
       [] e = "news" ->
            { <<>>,
              << Theme("artificial intelligence", 700, "news", "2 articles") >>,
              << Theme("cloud computing", 550, "news", "1 article") >> }
       [] e = "social" ->
            { <<>>,
              << Theme("artificial intelligence", 500, "social", "so ai") >>,
              << Theme("cloud computing", 750, "social", "so cloud") >> }
       [] e = "embedding" ->
            { <<>>,
              << Theme("artificial intelligence", 720, "embedding", "cos 0.720") >>,
              << Theme("artificial intelligence", 1000, "embedding", "cos 1.000") >>,
              << Theme("cloud computing", 600, "embedding", "cos 0.600") >> }
       [] e = "llm" ->
            { <<>>,
              << Theme("ai", 950, "llm", "LLM") >>,
              << Theme("technology", 1000, "llm", "LLM") >>,
              << Theme("ai", 900, "llm", "LLM 1"),
                 Theme("artificial intelligence", 900, "llm", "LLM 2") >>,
              << Theme("cloud computing", 1000, "llm", "LLM") >>,
              << Theme("gpt", 800, "llm", "LLM"),
                 Theme("software", 650, "llm", "LLM") >> }
       [] e = "other" ->
            { <<>>,
              << Theme("AI", 600, "manual", "by hand") >>,
              << Theme(" Technology ", 900, "manual", "by hand"),
                 Theme("Growth", 1000, "manual", "by hand") >>,
              << Theme("Cloud Computing", 670, "manual", "by hand") >> }]

NotRun == <<"not run">>

InitMerge ==
    /\ profile = None
    /\ env = None
    /\ use_llm = TRUE
    /\ filter_result = NoFilterResult
    /\ raised = None
    /\ all_themes = <<>>
    /\ slot = 1
    /\ ranked = NotRun
    /\ result_themes = NotRun
    /\ max_themes \in (0 - MaxMaxThemes)..MaxMaxThemes
    /\ pc = "collect"
    /\ metadata = Idle
    /\ filter_calls = 0
    /\ earlier = <<>>
    /\ embedder = Idle
    /\ norm = Idle /\ llm = Idle /\ db = Idle /\ batch = Idle
    /\ pipeline = Idle /\ chunker = Idle /\ semantic = Idle

\* metadata with the themes counted after merging
Metadata_CountsMerged(all, fr) ==
    [sources_used |-> { all[i].source : i \in 1..Len(all) },
     total_raw_themes |-> Len(merge_and_rank(all)),
     chunks_total |-> IF fr # NoFilterResult THEN fr.total_chunks ELSE 0,
     chunks_relevant |-> IF fr # NoFilterResult THEN fr.relevant_count ELSE 0]

\* the metadata dict of the ThemeResult that extract builds
Metadata(all, fr) ==
    [sources_used |-> { all[i].source : i \in 1..Len(all) },
     total_raw_themes |-> Len(all),
     chunks_total |-> IF fr # NoFilterResult THEN fr.total_chunks ELSE 0,
     chunks_relevant |-> IF fr # NoFilterResult THEN fr.relevant_count ELSE 0]

\* all_themes.extend(themes) for the next extractor's list
Collect ==
    /\ pc = "collect"
    /\ slot <= Len(ExtractorOrder)
    /\ \E out \in RawMenu[ExtractorOrder[slot]] : all_themes' = all_themes \o out
    /\ slot' = slot + 1
    /\ UNCHANGED <<profile, env, use_llm, filter_result, raised>>
    /\ UNCHANGED <<ranked, result_themes, max_themes, pc>>
    /\ UNCHANGED <<metadata, filter_calls, earlier, embedder>>
    /\ UNCHANGED outside

\* ranked = self._merge_and_rank(all_themes); themes = ranked[: self.max_themes]
MergeAndRank ==
    /\ pc = "collect"
    /\ slot > Len(ExtractorOrder)
    /\ ranked' = merge_and_rank(all_themes)
    /\ result_themes' = Truncate(ranked', max_themes)
    /\ pc' = "merged"
    /\ UNCHANGED <<profile, env, use_llm, filter_result, raised>>
    /\ UNCHANGED <<all_themes, slot, max_themes>>
    /\ metadata' = Metadata(all_themes, filter_result)
    /\ UNCHANGED <<filter_calls, earlier, embedder>>
    /\ UNCHANGED outside

NextMerge == Collect \/ MergeAndRank

SpecMerge == InitMerge /\ [][NextMerge]_vars

\* ------------------------------------------------------------------------
\* models.py: CompanyProfile.  A text field holds None or the name of a text
\* of the corpus below; the profiles are those the fields' small domains give.
\* ------------------------------------------------------------------------

\* list(set(ids)) of ids that differ: the ids once each, in an order that the
\* hashes of the strings give and that changes from process to process, so
\* every order is one a run can produce
Orders(ids) ==
    { [i \in 1..Len(ids) |-> ids[f[i]]] : f \in Permutations(1..Len(ids)) }

\* what the PatentsView API returns for a company: the titles of its patents,
\* their cpc_group_ids without repeats in the order of the response, and the
\* number of patents
PatentResponses ==
    { [titles |-> <<>>, ids |-> <<>>, count |-> 0],
      [titles |-> <<"Neural net training">>,
       ids |-> <<"G06N3/08", "G06F17/30">>, count |-> 4],
      [titles |-> <<"Wafer process", "Inference engine">>,
       ids |-> <<"G06N ", "H01L21/02", "A01B1/00">>, count |-> 120] }

\* patent_titles, patent_cpc_codes, patent_count as PatentsViewProvider sets
\* them: cpc_codes = list(set(cpc_codes))
PatentRecords(response) ==
    { [titles |-> response.titles, cpc |-> order, count |-> response.count] :
        order \in Orders(response.ids) }

PatentData == UNION { PatentRecords(response) : response \in PatentResponses }

\* what the GDELT API returns for a company: the titles of the articles and
\* their theme codes without repeats in the order of the response
NewsResponses ==
    { [codes |-> <<>>, titles |-> <<>>],
      [codes |-> <<"tax_ai_deeplearning", "ECON_STOCKMARKET">>,
       titles |-> <<"Acme ships model", "Acme earnings">>],
      [codes |-> <<"TAX_AI", "WB_CLOUD", "tax_ai_deeplearning">>, titles |-> <<>>] }

\* news_themes and news_titles as GDELTProvider sets them: themes =
\* list(set(themes))
NewsRecords(response) ==
    { [themes |-> order, titles |-> response.titles] :
        order \in Orders(response.codes) }

NewsData == UNION { NewsRecords(response) : response \in NewsResponses }

\* sector, industry, sic_code, business_description, business_summary and
\* social_text of a profile
ScalarValues ==
    {None, "Technology"} \X {None, "Software - Infrastructure"}
    \X {None, "7372", "3674", "3672"}
    \X {None, "desc_ai"} \X {None, "sum_cloud"} \X {None, "soc_ev"}

CompanyProfile(scalars, pt, nw) ==
    [ticker |-> "ACME", name |-> "Acme",
     sector |-> scalars[1], industry |-> scalars[2], sic_code |-> scalars[3],
     business_description |-> scalars[4], business_summary |-> scalars[5],
     risk_factors |-> None, social_text |-> scalars[6],
     patent_titles |-> pt.titles, patent_cpc_codes |-> pt.cpc,
     patent_count |-> pt.count,
     news_themes |-> nw.themes, news_titles |-> nw.titles]

\* the scalar fields of the companies that have patents or news: none set,
\* all set, the industry alone, sector with SIC code and social text, the
\* business summary alone, SIC code with business description
ScalarsWithLists ==
    { <<None, None, None, None, None, None>>,
      <<"Technology", "Software - Infrastructure", "7372", "desc_ai", "sum_cloud",
        "soc_ev">>,
      <<None, "Software - Infrastructure", None, None, None, None>>,
      <<"Technology", None, "3674", None, None, "soc_ev">>,
      <<None, None, None, None, "sum_cloud", None>>,
      <<None, None, "7372", "desc_ai", None, None>> }

\* what the providers are given to build a profile from: the scalar fields
\* and the two responses.  A company without patents and without news has
\* every combination of the scalar fields; the companies of
\* ScalarsWithLists have every combination of the responses
Companies ==
    { c \in ScalarValues \X PatentResponses \X NewsResponses :
        \/ c[2].ids = <<>> /\ c[3].codes = <<>>
        \/ c[1] \in ScalarsWithLists }

\* the profiles the providers can hand to extract for these companies: the
\* lists of a company in every order that list(set(...)) can give each of them
Profiles ==
    UNION { { CompanyProfile(c[1], pt, nw) :
                pt \in PatentRecords(c[2]), nw \in NewsRecords(c[3]) } :
            c \in Companies }

\* ------------------------------------------------------------------------
\* semantic/chunker.py, semantic/filter.py
\* ------------------------------------------------------------------------

\* collect_all_text: the parts that are present, in order
TextParts(p) ==
    (IF p.business_description # None THEN <<p.business_description>> ELSE <<>>)
    \o (IF p.business_summary # None THEN <<p.business_summary>> ELSE <<>>)
    \o (IF p.risk_factors # None THEN <<p.risk_factors>> ELSE <<>>)
    \o (IF p.patent_titles # <<>> THEN <<"patent titles">> ELSE <<>>)
    \o (IF p.news_titles # <<>> THEN <<"news titles">> ELSE <<>>)
    \o (IF p.social_text # None THEN <<p.social_text>> ELSE <<>>)

\* not text.strip(): no text of the corpus is blank
TextIsBlank(p) == TextParts(p) = <<>>

\* " ".join(titles) raises TypeError when a title is not a str
JoinRaises(titles) == \E i \in 1..Len(titles) : titles[i] = None

\* collect_all_text(profile) raises
CollectAllTextRaises(p) == JoinRaises(p.patent_titles) \/ JoinRaises(p.news_titles)

SIMILARITY_THRESHOLD == 600

\* list(THEME_DESCRIPTIONS.keys())
THEME_NAMES == <<"artificial intelligence", "cloud computing">>

\* a chunk has at most this many rows in the similarity matrix of a text
MaxChunks == 2

\* similarity[i]: the cosine similarity of one chunk to each theme
SimRows == { <<720, 300>>, <<300, 450>>, <<1000, 600>> }

SimMatrices ==
    UNION { [1..n -> SimRows] : n \in 1..MaxChunks }

\* the embedding model during one call: it fails to load, or it gives the
\* chunks of the text their similarity rows
Envs ==
    { [fails |-> TRUE, sims |-> <<>>] }
    \cup { [fails |-> FALSE, sims |-> m] : m \in SimMatrices }

\* the model is not consulted
IdleEnv == [fails |-> FALSE, sims |-> <<>>]

FilterResult(rc, mt, ac) ==
    [relevant_chunks |-> rc, matched_themes |-> mt, all_chunks |-> ac,
     total_chunks |-> Len(ac), relevant_count |-> Len(rc)]

EmptyFilterResult == FilterResult(<<>>, <<>>, <<>>)

RowMax(row) == CHOOSE m \in {row[j] : j \in 1..Len(row)} :
                   \A j \in 1..Len(row) : row[j] <= m

\* the first score recorded for a theme stays
RECURSIVE ScanThemes_FirstScore(_, _, _, _)
ScanThemes_FirstScore(matched, row, j, threshold) ==
    IF j > Len(THEME_NAMES) THEN matched
    ELSE LET theme == THEME_NAMES[j]
             at == {k \in 1..Len(matched) : matched[k].theme = theme}
             next ==
                 IF row[j] < threshold \/ at # {} THEN matched
                 ELSE Append(matched, [theme |-> theme, score |-> row[j]])
         IN  ScanThemes_FirstScore(next, row, j + 1, threshold)

\* matched_themes is a dict: a sequence of [theme, score] in insertion order.
\* One pass of the inner loop over the themes, from theme j on.
RECURSIVE ScanThemes(_, _, _, _)
ScanThemes(matched, row, j, threshold) ==
    IF j > Len(THEME_NAMES) THEN matched
    ELSE LET theme == THEME_NAMES[j]
             at == {k \in 1..Len(matched) : matched[k].theme = theme}
             next ==
                 IF row[j] < threshold THEN matched
                 ELSE IF at = {} THEN Append(matched, [theme |-> theme, score |-> row[j]])
                 ELSE IF row[j] > matched[CHOOSE k \in at : TRUE].score
                      THEN [matched EXCEPT ![CHOOSE k \in at : TRUE].score = row[j]]
                 ELSE matched
         IN  ScanThemes(next, row, j + 1, threshold)

\* the loop over the chunks, from chunk i on; a chunk is its index
RECURSIVE ScanChunks(_, _, _, _, _)
ScanChunks(relevant, matched, sims, i, threshold) ==
    IF i > Len(sims) THEN [relevant |-> relevant, matched |-> matched]
    ELSE IF RowMax(sims[i]) >= threshold
         THEN ScanChunks(Append(relevant, i),
                         ScanThemes(matched, sims[i], 1, threshold),
                         sims, i + 1, threshold)
         ELSE ScanChunks(relevant, matched, sims, i + 1, threshold)

\* semantic_filter raises when the embedding model cannot be used
SemanticFilterRaises(p, e) == ~TextIsBlank(p) /\ e.fails

\* semantic_filter(profile, threshold) when it returns
semantic_filter(p, e, threshold) ==
    IF TextIsBlank(p) THEN EmptyFilterResult
    ELSE LET chunks == [i \in 1..Len(e.sims) |-> i]
             scan == ScanChunks(<<>>, <<>>, e.sims, 1, threshold)
         IN  FilterResult(scan.relevant, scan.matched, chunks)

\* ------------------------------------------------------------------------
\* semantic/embedder.py: the globals _theme_names / _theme_embeddings and the
\* cache file.  theme_embeddings is "unset" (None), "fresh" (what the model
\* computes for the taxonomy) or "stale" (a tensor whose row count differs
\* from the taxonomy's size); cache_file is "absent", "valid" or "stale".
\* ------------------------------------------------------------------------

CacheFiles == {"absent", "valid", "stale"}

Embedders ==
    { [theme_embeddings |-> "unset", cache_file |-> c] : c \in CacheFiles }

\* the globals are not consulted: every call goes to the cache file
GetThemeEmbeddings_NoGlobals(emb, e) ==
    IF emb.cache_file = "valid" THEN [emb EXCEPT !.theme_embeddings = "fresh"]
    ELSE LET loaded == IF emb.cache_file = "stale" THEN "stale" ELSE emb.theme_embeddings
         IN  IF e.fails THEN [emb EXCEPT !.theme_embeddings = loaded]
             ELSE [theme_embeddings |-> "fresh", cache_file |-> "valid"]

\* the globals after get_theme_embeddings, whether it returns or raises
GetThemeEmbeddings(emb, e) ==
    IF emb.theme_embeddings # "unset" THEN emb
    ELSE IF emb.cache_file = "valid" THEN [emb EXCEPT !.theme_embeddings = "fresh"]
    ELSE LET loaded == IF emb.cache_file = "stale" THEN "stale" ELSE "unset"
         IN  IF e.fails THEN [emb EXCEPT !.theme_embeddings = loaded]
             ELSE [theme_embeddings |-> "fresh", cache_file |-> "valid"]

\* the embedder after semantic_filter(profile): a blank text returns before
\* get_theme_embeddings is called
EmbedderAfterFilter(p, e, emb) ==
    IF CollectAllTextRaises(p) \/ TextIsBlank(p) THEN emb
    ELSE GetThemeEmbeddings(emb, e)

\* mutant: the tensor loaded from the cache file is returned as it was loaded,
\* while the globals go on to hold the recomputed one
ThemeEmbeddingsUsed_AsLoaded(emb, e) ==
    IF emb.theme_embeddings = "unset" /\ emb.cache_file = "stale" THEN "stale"
    ELSE GetThemeEmbeddings(emb, e).theme_embeddings

\* theme_names, theme_embeddings = get_theme_embeddings(): the globals
ThemeEmbeddingsUsed(emb, e) == GetThemeEmbeddings(emb, e).theme_embeddings

\* a stale tensor has one row fewer than the taxonomy has themes
StaleRow(row) == SubSeq(row, 1, Len(row) - 1)

\* with a stale tensor, similarity[i][j] is out of range for the last theme
\* of the first chunk that passes the threshold
StaleIndexError(e, threshold) ==
    \E i \in 1..Len(e.sims) :
        StaleRow(e.sims[i]) # <<>> /\ RowMax(StaleRow(e.sims[i])) >= threshold

\* semantic_filter(profile, threshold) raises
FilterCallRaises(p, e, emb, threshold) ==
    \/ CollectAllTextRaises(p)
    \/ /\ ~TextIsBlank(p)
       /\ \/ e.fails
          \/ /\ ThemeEmbeddingsUsed(emb, e) = "stale"
             /\ StaleIndexError(e, threshold)

\* what semantic_filter(profile, threshold) returns when it does not raise
FilterCallResult(p, e, emb, threshold) ==
    IF TextIsBlank(p) THEN EmptyFilterResult
    ELSE IF ThemeEmbeddingsUsed(emb, e) = "stale"
    THEN FilterResult(<<>>, <<>>, [i \in 1..Len(e.sims) |-> i])
    ELSE semantic_filter(p, e, threshold)

\* ------------------------------------------------------------------------
\* extraction/sic_mapper.py
\* ------------------------------------------------------------------------

\* taxonomy/sic_mapping.json
SIC_MAPPING ==
    [c \in {"7372", "3674", "3600"} |->
     CASE c = "7372" -> <<"software">>
       [] c = "3674" -> <<"semiconductors">>
       [] c = "3600" -> <<"semiconductors", "electronics">>]

\* sic[:2] + "00"
SicPrefix(sic) ==
    CASE sic \in {"7372"} -> "7300"
      [] sic \in {"3674", "3672", "3600"} -> "3600"

\* str.lower() of a sector or an industry
Lower(str) ==
    CASE str = "Technology" -> "technology"
      [] str = "Software - Infrastructure" -> "software - infrastructure"
      [] OTHER -> str

\* every name appended, seen before or not
RECURSIVE AppendUnseen_NoSeenSet(_, _, _, _)
AppendUnseen_NoSeenSet(themes, names, confidence, evidence) ==
    IF names = <<>> THEN themes
    ELSE AppendUnseen_NoSeenSet(
             Append(themes, Theme(Head(names), confidence, "sic", evidence)),
             Tail(names), confidence, evidence)

\* for theme_name in names: if theme_name not in seen: themes.append(...)
RECURSIVE AppendUnseen(_, _, _, _)
AppendUnseen(themes, names, confidence, evidence) ==
    IF names = <<>> THEN themes
    ELSE IF Head(names) \in Names(themes)
         THEN AppendUnseen(themes, Tail(names), confidence, evidence)
         ELSE AppendUnseen(Append(themes, Theme(Head(names), confidence, "sic", evidence)),
                           Tail(names), confidence, evidence)

\* SICMapper.extract
SICMapperExtract(p) ==
    LET sic == p.sic_code
        exact == IF sic # None /\ sic \in DOMAIN SIC_MAPPING
                 THEN AppendUnseen(<<>>, SIC_MAPPING[sic], 650, "SIC code")
                 ELSE <<>>
        prefix == IF sic # None /\ SicPrefix(sic) \in DOMAIN SIC_MAPPING
                     /\ SicPrefix(sic) # sic
                  THEN AppendUnseen(exact, SIC_MAPPING[SicPrefix(sic)], 400, "SIC prefix")
                  ELSE exact
        sector == IF p.sector # None
                  THEN AppendUnseen(prefix, <<Lower(p.sector)>>, 500, "Yahoo Finance sector")
                  ELSE prefix
    IN  IF p.industry # None
        THEN AppendUnseen(sector, <<Lower(p.industry)>>, 550, "Yahoo Finance industry")
        ELSE sector

\* ------------------------------------------------------------------------
\* extraction/keyword_extractor.py, extraction/social_extractor.py.  The
\* texts of the corpus stand for strings; what the regular expressions find
\* in each is given by TextMatches, and no match spans two joined texts.
\* ------------------------------------------------------------------------

\* len(text)
TextLength(t) ==
    CASE t = "desc_ai" -> 500
      [] t = "sum_cloud" -> 120
      [] t = "soc_ev" -> 1000
      [] OTHER -> 0

\* the keys of THEME_KEYWORDS that match in the corpus, in dict order
KeywordThemes == <<"artificial intelligence", "cloud computing", "electric vehicles">>

\* sum of len(pattern.findall(text)) over the patterns of a theme
TextMatches(t, theme) ==
    CASE t = "desc_ai" /\ theme = "artificial intelligence" -> 4
      [] t = "sum_cloud" /\ theme = "cloud computing" -> 1
      [] t = "soc_ev" /\ theme = "electric vehicles" -> 3
      [] t = "soc_ev" /\ theme = "artificial intelligence" -> 1
      [] OTHER -> 0

\* len(" ".join(parts))
JoinedLength(parts) ==
    SumSeq([i \in 1..Len(parts) |-> TextLength(parts[i])]) + (Len(parts) - 1)

JoinedMatches(parts, theme) ==
    SumSeq([i \in 1..Len(parts) |-> TextMatches(parts[i], theme)])

\* min(cap, base + density * slope) as the float, the density being taken
\* per `per` characters
DensityFloat(match_count, length, per, base, slope, cap) ==
    FloatMin(Thousandths(cap),
             FloatAdd(Thousandths(base),
                      FloatMul(FloatDiv(FloatOfInt(match_count), Decimal(length, per)),
                               Thousandths(slope))))

\* the density taken per 100 characters
DensityConfidence_PerHundred(match_count, length, base, slope, cap) ==
    Round3(Min(cap * length, base * length + slope * match_count * 100), length,
           DensityFloat(match_count, length, 100, base, slope, cap))

\* round(min(cap, base + density * slope), 3), density = match_count / (length / 1000)
DensityConfidence(match_count, length, base, slope, cap) ==
    Round3(Min(cap * length, base * length + slope * match_count * 1000), length,
           DensityFloat(match_count, length, 1000, base, slope, cap))

\* the matched themes of one text, before the sort
RECURSIVE PatternThemes(_, _, _, _, _, _, _)
PatternThemes(parts, j, minimum, base, slope, cap, source) ==
    IF j > Len(KeywordThemes) THEN <<>>
    ELSE LET theme == KeywordThemes[j]
             n == JoinedMatches(parts, theme)
             rest == PatternThemes(parts, j + 1, minimum, base, slope, cap, source)
         IN  IF n >= minimum
             THEN <<Theme(theme,
                          DensityConfidence(n, JoinedLength(parts), base, slope, cap),
                          source, "first match context")>> \o rest
             ELSE rest

\* KeywordExtractor.extract
KeywordExtract(p) ==
    LET parts ==
            (IF p.business_description # None THEN <<p.business_description>> ELSE <<>>)
            \o (IF p.business_summary # None THEN <<p.business_summary>> ELSE <<>>)
            \o (IF p.risk_factors # None THEN <<p.risk_factors>> ELSE <<>>)
            \o (IF p.social_text # None THEN <<p.social_text>> ELSE <<>>)
    IN  IF parts = <<>> THEN <<>>
        ELSE SortByConfidence(PatternThemes(parts, 1, 1, 350, 80, 900, "keyword"))

\* SocialExtractor.extract
SocialExtract(p) ==
    IF p.social_text = None THEN <<>>
    ELSE SortByConfidence(PatternThemes(<<p.social_text>>, 1, 2, 250, 70, 750, "social"))

\* ------------------------------------------------------------------------
\* extraction/patent_mapper.py, extraction/news_extractor.py
\* ------------------------------------------------------------------------

\* theme_counts[theme] += 1 on a Counter kept as [theme, count] in insertion order
Increment(counts, theme) ==
    IF \E k \in 1..Len(counts) : counts[k].theme = theme
    THEN [k \in 1..Len(counts) |->
            IF counts[k].theme = theme
            THEN [counts[k] EXCEPT !.count = @ + 1] ELSE counts[k]]
    ELSE Append(counts, [theme |-> theme, count |-> 1])

RECURSIVE IncrementAll(_, _)
IncrementAll(counts, themes) ==
    IF themes = <<>> THEN counts
    ELSE IncrementAll(Increment(counts, Head(themes)), Tail(themes))

\* max(theme_counts.values())
MaxCount(counts) ==
    CHOOSE m \in {counts[k].count : k \in 1..Len(counts)} :
        \A k \in 1..Len(counts) : counts[k].count <= m

\* theme_counts.most_common(): by count, descending, ties in insertion order
MostCommon(counts) ==
    LET pos(i) == 1 + Cardinality({j \in 1..Len(counts) :
                         \/ counts[j].count > counts[i].count
                         \/ /\ counts[j].count = counts[i].count
                            /\ j < i})
    IN  [k \in 1..Len(counts) |-> counts[CHOOSE i \in 1..Len(counts) : pos(i) = k]]

\* taxonomy/cpc_mapping.json: a key lists one theme or more, and a key and a
\* shorter key that is its prefix (G06N, G06) may list the same theme
CPC_MAPPING ==
    [c \in {"G06N", "H01L", "G06"} |->
     CASE c = "G06N" -> <<"artificial intelligence", "software">>
       [] c = "H01L" -> <<"semiconductors", "electronics">>
       [] c = "G06" -> <<"software">>]

\* code[:length]
CodePrefix(code, length) ==
    CASE code = "G06N3/08" /\ length = 4 -> "G06N"
      [] code = "G06N3/08" /\ length = 3 -> "G06"
      [] code = "G06F17/30" /\ length = 4 -> "G06F"
      [] code = "G06F17/30" /\ length = 3 -> "G06"
      [] code = "H01L21/02" /\ length = 4 -> "H01L"
      [] code = "H01L21/02" /\ length = 3 -> "H01"
      [] code = "A01B1/00" /\ length = 4 -> "A01B"
      [] code = "A01B1/00" /\ length = 3 -> "A01"
      [] code = "G06N" /\ length = 3 -> "G06"
      [] OTHER -> code

\* cpc_code.strip()
StripCode(cpc_code) ==
    CASE cpc_code = "G06N " -> "G06N"
      [] OTHER -> cpc_code

\* the themes of every key that matches, not of the first one only
PatentLookup_EveryKey(cpc_code) ==
    LET code == StripCode(cpc_code) IN
    (IF code \in DOMAIN CPC_MAPPING THEN CPC_MAPPING[code] ELSE <<>>)
    \o (IF CodePrefix(code, 4) \in DOMAIN CPC_MAPPING /\ CodePrefix(code, 4) # code
        THEN CPC_MAPPING[CodePrefix(code, 4)] ELSE <<>>)
    \o (IF CodePrefix(code, 3) \in DOMAIN CPC_MAPPING /\ CodePrefix(code, 3) # code
        THEN CPC_MAPPING[CodePrefix(code, 3)] ELSE <<>>)

\* PatentMapper._lookup
PatentLookup(cpc_code) ==
    LET code == StripCode(cpc_code) IN
    IF code \in DOMAIN CPC_MAPPING THEN CPC_MAPPING[code]
    ELSE IF CodePrefix(code, 4) \in DOMAIN CPC_MAPPING THEN CPC_MAPPING[CodePrefix(code, 4)]
    ELSE IF CodePrefix(code, 3) \in DOMAIN CPC_MAPPING THEN CPC_MAPPING[CodePrefix(code, 3)]
    ELSE <<>>

RECURSIVE PatentCounts(_, _)
PatentCounts(counts, codes) ==
    IF codes = <<>> THEN counts
    ELSE PatentCounts(IncrementAll(counts, PatentLookup(Head(codes))), Tail(codes))

\* min(0.85, 0.3 + relative_frequency * 0.35 + volume_bonus) as the float
PatentFloat(count, max_count, total_patents) ==
    LET relative_frequency == FloatDiv(FloatOfInt(count), FloatOfInt(max_count))
        volume_bonus == FloatMin(Thousandths(200),
                                 FloatDiv(FloatOfInt(total_patents), FloatOfInt(500)))
    IN  FloatMin(Thousandths(850),
                 FloatAdd(FloatAdd(Thousandths(300),
                                   FloatMul(relative_frequency, Thousandths(350))),
                          volume_bonus))

\* round(min(0.85, 0.3 + count / max_count * 0.35 + min(0.2, total_patents / 500)), 3)
PatentConfidence(count, max_count, total_patents) ==
    Round3(Min(850 * max_count,
               300 * max_count + 350 * count
               + Min(200, 2 * total_patents) * max_count),
           max_count, PatentFloat(count, max_count, total_patents))

\* PatentMapper.extract
PatentExtract(p) ==
    IF p.patent_cpc_codes = <<>> THEN <<>>
    ELSE LET counts == PatentCounts(<<>>, p.patent_cpc_codes)
             total == IF p.patent_count # 0 THEN p.patent_count
                      ELSE Len(p.patent_cpc_codes)
             common == MostCommon(counts)
         IN  IF counts = <<>> THEN <<>>
             ELSE [k \in 1..Len(common) |->
                     Theme(common[k].theme,
                           PatentConfidence(common[k].count, MaxCount(counts), total),
                           "patent", "patents with matching CPC codes")]

\* taxonomy/gdelt_mapping.json, in the order of its keys
GDELT_MAPPING ==
    << [prefix |-> "TAX_AI", canonical |-> "artificial intelligence"],
       [prefix |-> "WB_CLOUD", canonical |-> "cloud computing"] >>

\* gdelt_theme.strip().upper()
StripUpper(str) ==
    CASE str = "tax_ai_deeplearning" -> "TAX_AI_DEEPLEARNING"
      [] OTHER -> str

\* str.startswith(prefix)
StartsWith(str, prefix) ==
    \/ str = prefix
    \/ str = "TAX_AI_DEEPLEARNING" /\ prefix = "TAX_AI"

\* the canonical themes one GDELT theme counts for: the exact key, else the
\* first key it starts with
NewsLookup(gdelt_theme) ==
    LET code == StripUpper(gdelt_theme)
        hits == {k \in 1..Len(GDELT_MAPPING) : StartsWith(code, GDELT_MAPPING[k].prefix)}
        exact == {k \in 1..Len(GDELT_MAPPING) : GDELT_MAPPING[k].prefix = code}
    IN  IF exact # {} THEN <<GDELT_MAPPING[CHOOSE k \in exact : TRUE].canonical>>
        ELSE IF hits # {}
             THEN <<GDELT_MAPPING[CHOOSE k \in hits : \A h \in hits : k <= h].canonical>>
        ELSE <<>>

RECURSIVE NewsCounts(_, _)
NewsCounts(counts, gdelt_themes) ==
    IF gdelt_themes = <<>> THEN counts
    ELSE NewsCounts(IncrementAll(counts, NewsLookup(Head(gdelt_themes))),
                    Tail(gdelt_themes))

\* min(0.8, 0.25 + frequency * 0.3 + coverage) as the float
NewsFloat(count, max_count, total_articles) ==
    LET frequency == FloatDiv(FloatOfInt(count), FloatOfInt(max_count))
        coverage == FloatMin(Thousandths(150),
                             FloatDiv(FloatOfInt(count), FloatOfInt(total_articles)))
    IN  FloatMin(Thousandths(800),
                 FloatAdd(FloatAdd(Thousandths(250),
                                   FloatMul(frequency, Thousandths(300))),
                          coverage))

\* round(min(0.8, 0.25 + count / max_count * 0.3 + min(0.15, count / total_articles)), 3)
NewsConfidence(count, max_count, total_articles) ==
    Round3(Min(800 * max_count * total_articles,
               250 * max_count * total_articles
               + 300 * count * total_articles
               + Min(150 * total_articles, 1000 * count) * max_count),
           max_count * total_articles, NewsFloat(count, max_count, total_articles))

\* NewsExtractor.extract
NewsExtract(p) ==
    IF p.news_themes = <<>> THEN <<>>
    ELSE LET counts == NewsCounts(<<>>, p.news_themes)
             total == IF Len(p.news_titles) # 0 THEN Len(p.news_titles) ELSE 1
             common == MostCommon(counts)
         IN  IF counts = <<>> THEN <<>>
             ELSE [k \in 1..Len(common) |->
                     Theme(common[k].theme,
                           NewsConfidence(common[k].count, MaxCount(counts), total),
                           "news", "mentioned in GDELT articles")]

\* ------------------------------------------------------------------------
\* extraction/embedding_matcher.py
\* ------------------------------------------------------------------------

\* EmbeddingMatcher.extract raises when it has to run semantic_filter itself
\* and that raises
EmbeddingExtractRaises(p, e, emb, fr) ==
    fr = NoFilterResult /\ FilterCallRaises(p, e, emb, SIMILARITY_THRESHOLD)

\* EmbeddingMatcher.extract when it returns
EmbeddingExtract(p, e, emb, fr) ==
    LET own == IF fr = NoFilterResult
               THEN FilterCallResult(p, e, emb, SIMILARITY_THRESHOLD) ELSE fr
        matched == own.matched_themes
    IN  SortByConfidence([k \in 1..Len(matched) |->
            Theme(matched[k].theme, matched[k].score, "embedding",
                  "cosine similarity against theme embedding")])

\* ------------------------------------------------------------------------
\* extraction/ensemble.py: EnsembleExtractor.extract
\* ------------------------------------------------------------------------

\* the names config.py defines
ConfigNames ==
    {"SEC_EDGAR_EMAIL", "HF_TOKEN", "PATENTSVIEW_API_KEY",
     "STOCKTWITS_ACCESS_TOKEN", "PROJECT_ROOT", "CACHE_DIR", "LLM_PROVIDERS",
     "LLM_PROVIDER", "_provider", "LLM_API_KEY", "LLM_BASE_URL", "LLM_MODEL",
     "LLM_MARKET_CAP_THRESHOLD", "EMBEDDING_MODEL", "SIMILARITY_THRESHOLD",
     "CHUNK_SIZE_WORDS", "BATCH_SIZE", "LLM_DELAY_SECONDS",
     "SEC_RATE_LIMIT_DELAY", "YAHOO_RATE_LIMIT_DELAY", "FAKE_USER_AGENT",
     "YAHOO_CACHE_TTL_HOURS", "SEC_10K_CACHE_TTL_HOURS",
     "SEC_10Q_CACHE_TTL_HOURS", "PATENT_CACHE_TTL_HOURS",
     "NEWS_CACHE_TTL_HOURS", "os", "Path", "load_dotenv"}

\* mutant: llm_extractor.py imports the key under the name config.py defines
LlmExtractorImports_LlmApiKey == {"LLM_API_KEY", "LLM_BASE_URL", "LLM_MODEL"}

\* from stock_themes.config import MOONSHOT_API_KEY, LLM_BASE_URL, LLM_MODEL
LlmExtractorImports == {"MOONSHOT_API_KEY", "LLM_BASE_URL", "LLM_MODEL"}

\* importing extraction/llm_extractor.py: None, or the exception it raises
ImportLlmExtractor ==
    IF LlmExtractorImports \subseteq ConfigNames THEN None ELSE "ImportError"

\* _get_extractors imports every extractor module before it builds the list;
\* the exception of a failed import leaves _get_extractors and, not being
\* inside a try, extract
GetExtractorsRaises == ImportLlmExtractor

Init ==
    /\ profile \in Profiles
    /\ env = IdleEnv
    /\ use_llm \in BOOLEAN
    /\ max_themes \in (0 - MaxMaxThemes)..MaxMaxThemes
    /\ filter_result = NoFilterResult
    /\ all_themes = <<>>
    /\ slot = 1
    /\ ranked = NotRun
    /\ result_themes = NotRun
    /\ raised = None
    /\ pc = "start"
    /\ metadata = Idle
    /\ filter_calls = 0
    /\ earlier = <<>>
    /\ embedder \in Embedders
    /\ norm = Idle /\ llm = Idle /\ db = Idle /\ batch = Idle
    /\ pipeline = Idle /\ chunker = Idle /\ semantic = Idle

\* extract, step 1: filter_result = semantic_filter(profile), or None when it raises
ExtractSemanticFilter ==
    /\ pc = "start"
    /\ \E e \in (IF TextIsBlank(profile) THEN {IdleEnv}
                ELSE IF earlier = <<>> THEN Envs ELSE {env}) :
          /\ env' = e
          /\ filter_result' =
                IF FilterCallRaises(profile, e, embedder, SIMILARITY_THRESHOLD)
                THEN NoFilterResult
                ELSE FilterCallResult(profile, e, embedder, SIMILARITY_THRESHOLD)
          /\ embedder' = EmbedderAfterFilter(profile, e, embedder)
    /\ filter_calls' = filter_calls + 1
    /\ pc' = "get_extractors"
    /\ UNCHANGED <<profile, use_llm, max_themes, all_themes, slot, ranked,
                   result_themes, raised>>
    /\ UNCHANGED <<metadata, earlier>>
    /\ UNCHANGED outside

\* extract, step 2: self._get_extractors(profile, filter_result)
ExtractGetExtractors ==
    /\ pc = "get_extractors"
    /\ GetExtractorsRaises # None
    /\ raised' = GetExtractorsRaises
    /\ pc' = "raised"
    /\ UNCHANGED <<profile, env, use_llm, max_themes, filter_result, all_themes,
                   slot, ranked, result_themes>>
    /\ UNCHANGED <<metadata, filter_calls, earlier, embedder>>
    /\ UNCHANGED outside

Next == ExtractSemanticFilter \/ ExtractGetExtractors

Spec == Init /\ [][Next]_vars

\* ------------------------------------------------------------------------
\* The extractors called one by one on a profile, in the order in which
\* _get_extractors lists them, and _merge_and_rank on what they produced.
\* extraction/llm_extractor.py cannot be imported, so it has no call here.
\* ------------------------------------------------------------------------

\* EnsembleExtractor.__init__: max_themes: int = 10
DEFAULT_MAX_THEMES == 10

InitExtractors ==
    /\ profile \in Profiles
    /\ env = IdleEnv
    /\ use_llm = FALSE
    /\ max_themes = DEFAULT_MAX_THEMES
    /\ filter_result = NoFilterResult
    /\ all_themes = <<>>
    /\ slot = 1
    /\ ranked = NotRun
    /\ result_themes = NotRun
    /\ raised = None
    /\ pc = "start"
    /\ metadata = Idle
    /\ filter_calls = 0
    /\ earlier = <<>>
    /\ embedder \in Embedders
    /\ norm = Idle /\ llm = Idle /\ db = Idle /\ batch = Idle
    /\ pipeline = Idle /\ chunker = Idle /\ semantic = Idle

\* themes = extract_fn(); all_themes.extend(themes)
RunExtractor(n, themes) ==
    /\ pc = "get_extractors"
    /\ slot = n
    /\ all_themes' = all_themes \o themes
    /\ slot' = n + 1
    /\ UNCHANGED <<profile, env, use_llm, max_themes, filter_result, ranked,
                   result_themes, raised, pc>>
    /\ UNCHANGED <<metadata, filter_calls, earlier, embedder>>
    /\ UNCHANGED outside

CallSICMapper == RunExtractor(1, SICMapperExtract(profile))

CallKeywordExtractor == RunExtractor(2, KeywordExtract(profile))

CallPatentMapper == RunExtractor(3, PatentExtract(profile))

CallNewsExtractor == RunExtractor(4, NewsExtract(profile))

CallSocialExtractor == RunExtractor(5, SocialExtract(profile))

\* mutant: the embedding extractor is listed whatever the filter returned
EmbeddingListed_Always(fr) == TRUE

\* _get_extractors: if filter_result is not None: extractors.append(("embedding", ...))
EmbeddingListed(fr) == fr # NoFilterResult

\* the embedding entry of the list, when it is there:
\* EmbeddingMatcher().extract(profile, filter_result)
CallEmbeddingMatcher ==
    /\ pc = "get_extractors"
    /\ slot = 6
    /\ IF EmbeddingListed(filter_result)
       THEN /\ all_themes' = all_themes \o
                   (IF EmbeddingExtractRaises(profile, env, embedder, filter_result)
                    THEN <<>>
                    ELSE EmbeddingExtract(profile, env, embedder, filter_result))
            /\ filter_calls' = IF filter_result = NoFilterResult
                               THEN filter_calls + 1 ELSE filter_calls
            /\ embedder' = IF filter_result = NoFilterResult
                           THEN EmbedderAfterFilter(profile, env, embedder)
                           ELSE embedder
       ELSE UNCHANGED <<all_themes, filter_calls, embedder>>
    /\ slot' = 7
    /\ UNCHANGED <<profile, env, use_llm, max_themes, filter_result, ranked,
                   result_themes, raised, pc>>
    /\ UNCHANGED <<metadata, earlier>>
    /\ UNCHANGED outside

CallMergeAndRank ==
    /\ pc = "get_extractors"
    /\ slot = 7
    /\ ranked' = merge_and_rank(all_themes)
    /\ result_themes' = Truncate(ranked', max_themes)
    /\ pc' = "merged"
    /\ UNCHANGED <<profile, env, use_llm, max_themes, filter_result, all_themes,
                   slot, raised>>
    /\ metadata' = Metadata(all_themes, filter_result)
    /\ UNCHANGED <<filter_calls, earlier, embedder>>
    /\ UNCHANGED outside

\* the calls of one behaviour: the same extractor object, profile and
\* embedding model, one call after the other
MaxCalls == 2

\* the call has ended and the next one begins: its locals start afresh, the
\* embedder's globals and the cache file stay as the call left them
CallAgain ==
    /\ pc = "merged"
    /\ Len(earlier) + 1 < MaxCalls
    /\ earlier' = Append(earlier, result_themes)
    /\ filter_result' = NoFilterResult
    /\ all_themes' = <<>>
    /\ slot' = 1
    /\ ranked' = NotRun
    /\ result_themes' = NotRun
    /\ metadata' = Idle
    /\ filter_calls' = 0
    /\ pc' = "start"
    /\ UNCHANGED <<profile, env, use_llm, max_themes, raised, embedder>>
    /\ UNCHANGED outside

NextExtractors ==
    \/ ExtractSemanticFilter
    \/ CallSICMapper
    \/ CallKeywordExtractor
    \/ CallPatentMapper
    \/ CallNewsExtractor
    \/ CallSocialExtractor
    \/ CallEmbeddingMatcher
    \/ CallMergeAndRank
    \/ CallAgain

SpecExtractors == InitExtractors /\ [][NextExtractors]_vars

\* ------------------------------------------------------------------------
\* Claims about _merge_and_rank and the truncation (SpecMerge)
\* ------------------------------------------------------------------------

\* the merged theme's group, read back from the raw list
RawGroup(name) == GroupOf(all_themes, name)

\* the weight table as the specification states it
StatedWeight(s) ==
    CASE s = "llm" -> 100
      [] s = "embedding" -> 85
      [] s = "keyword" -> 80
      [] s = "patent" -> 70
      [] s = "news" -> 60
      [] s = "sic" -> 50
      [] s = "social" -> 40
      [] OTHER -> 50

StatedSum(g) == SumSeq([i \in 1..Len(g) |-> g[i].confidence * StatedWeight(g[i].source)])

StatedCount(g) == SumSeq([i \in 1..Len(g) |-> StatedWeight(g[i].source)])

DistinctSources(g) == Cardinality({g[i].source : i \in 1..Len(g)})

StatedBonus(g) == Min(150, 50 * (DistinctSources(g) - 1))

\* the kept themes are themes of the ranked list, each once, and no dropped
\* theme has a higher confidence than a kept one
KeptAreTheTop ==
    /\ Names(result_themes) \subseteq Names(ranked)
    /\ Cardinality(Names(result_themes)) = Len(result_themes)
    /\ \A d \in 1..Len(ranked) :
           ranked[d].name \notin Names(result_themes) =>
               \A k \in 1..Len(result_themes) :
                   ranked[d].confidence <= result_themes[k].confidence

\* C2 as stated: for every max_themes the result holds at most max_themes
\* themes, and when more merged themes exist than max_themes the kept ones
\* are exactly the top max_themes by confidence.
C2_AtMostMaxThemes ==
    pc = "merged" =>
        /\ Len(result_themes) <= max_themes
        /\ Len(ranked) > max_themes =>
              Len(result_themes) = max_themes /\ KeptAreTheTop

\* C2 (amended): for every max_themes >= 0 the result holds at most
\* max_themes themes, and when more merged themes exist than max_themes the
\* kept ones are exactly the top max_themes by confidence; for a negative
\* max_themes the result holds the ranked themes without the last
\* -max_themes of them, the top ones by confidence.
C2_Truncation ==
    pc = "merged" =>
        /\ KeptAreTheTop
        /\ max_themes >= 0 =>
              /\ Len(result_themes) <= max_themes
              /\ Len(ranked) > max_themes => Len(result_themes) = max_themes
        /\ max_themes < 0 =>
              Len(result_themes) = Max(0, Len(ranked) + max_themes)

\* four merged themes are cut to the two of the highest confidence
C2_Witness ==
    /\ pc = "merged"
    /\ max_themes = 2
    /\ Len(ranked) = 4
    /\ Len(result_themes) = 2
    /\ ranked[3].confidence < ranked[2].confidence

\* max_themes is -1 and the result holds three of four merged themes
C2_WitnessNegative ==
    /\ pc = "merged"
    /\ max_themes = 0 - 1
    /\ Len(ranked) = 4
    /\ Len(result_themes) = 3

\* C3: no theme of the merged result has a blocked name; a raw theme whose
\* normalized name is blocked is dropped however many sources reported it and
\* however high its confidence.
C3_Blocklist ==
    pc = "merged" =>
        /\ \A i \in 1..Len(ranked) : ranked[i].name \notin BLOCKED_THEMES
        /\ \A i \in 1..Len(all_themes) :
              normalize(all_themes[i].name) \in BLOCKED_THEMES =>
                  /\ normalize(all_themes[i].name) \notin Names(ranked)
                  /\ all_themes[i].name \notin Names(ranked)
        /\ \A i \in 1..Len(all_themes) :
              normalize(all_themes[i].name) \notin BLOCKED_THEMES =>
                  normalize(all_themes[i].name) \in Names(ranked)

C3_Witness ==
    /\ pc = "merged"
    /\ DistinctSources(RawGroup("technology")) = 3
    /\ \E i \in 1..Len(all_themes) :
          all_themes[i].name = " Technology " /\ all_themes[i].confidence = 900
    /\ \E i \in 1..Len(all_themes) :
          all_themes[i].name = "technology" /\ all_themes[i].confidence = 1000
    /\ Len(ranked) >= 1

\* C5 as stated: the merged confidence equals min(1.0, weighted average + bonus)
C5_ExactWeightedAverage ==
    pc = "merged" =>
        \A i \in 1..Len(ranked) :
            LET g == RawGroup(ranked[i].name)
            IN  ranked[i].confidence * StatedCount(g)
                    = Min(1000 * StatedCount(g),
                          StatedSum(g) + StatedBonus(g) * StatedCount(g))

\* C5 (amended): the merged confidence of a group equals
\* min(1.0, weighted average + source bonus) rounded to three decimals, the
\* weights being LLM 1.0, EMBEDDING 0.85, KEYWORD_NLP 0.8, PATENT 0.7, NEWS 0.6,
\* SIC_MAPPING 0.5, SOCIAL 0.4 and 0.5 for any other source.
C5_RoundedWeightedAverage ==
    pc = "merged" =>
        \A i \in 1..Len(ranked) :
            LET g == RawGroup(ranked[i].name)
            IN  IsRounded(ranked[i].confidence,
                          Min(1000 * StatedCount(g),
                              StatedSum(g) + StatedBonus(g) * StatedCount(g)),
                          StatedCount(g))

\* KEYWORD_NLP 0.67 and EMBEDDING 0.72 alone: 0.69575.. + 0.05 is stored as 0.746
C5_Witness ==
    /\ pc = "merged"
    /\ \E i \in 1..Len(ranked) :
          /\ ranked[i].name = "artificial intelligence"
          /\ RawGroup(ranked[i].name)
                = << Theme("artificial intelligence", 670, "keyword", "kw ai"),
                     Theme("artificial intelligence", 720, "embedding", "cos 0.720") >>
          /\ ranked[i].confidence = 746
    /\ \E i \in 1..Len(ranked) :
          \E j \in 1..Len(RawGroup(ranked[i].name)) :
              RawGroup(ranked[i].name)[j].source \notin ExtractionMethod

\* C6 as stated: the merged confidence never exceeds
\* min(1.0, weighted_avg + 0.05*(k-1)) for k distinct sources
C6_ExactBonusBound ==
    pc = "merged" =>
        \A i \in 1..Len(ranked) :
            LET g == RawGroup(ranked[i].name)
            IN  ranked[i].confidence * StatedCount(g)
                    <= Min(1000 * StatedCount(g),
                           StatedSum(g) + 50 * (DistinctSources(g) - 1) * StatedCount(g))

\* C6 (amended): the merged confidence of a theme confirmed by k distinct
\* sources never exceeds min(1.0, weighted_avg + 0.05*(k-1)) rounded to three
\* decimals, and it is the rounded min(1.0, weighted_avg + bonus) for the bonus
\* min(0.15, 0.05*(k-1)), which counts distinct sources, is 0 for one source
\* and at most 0.15.
C6_RoundedBonusBound ==
    pc = "merged" =>
        \A i \in 1..Len(ranked) :
            LET g == RawGroup(ranked[i].name)
                k == DistinctSources(g)
                wc == StatedCount(g)
                ws == StatedSum(g)
            IN  /\ 2 * (ranked[i].confidence * wc
                         - Min(1000 * wc, ws + 50 * (k - 1) * wc)) <= wc
                /\ SourceBonus(g) = Min(150, 50 * (k - 1))
                /\ k = 1 => SourceBonus(g) = 0
                /\ SourceBonus(g) <= 150
                /\ IsRounded(ranked[i].confidence,
                             Min(1000 * wc, ws + SourceBonus(g) * wc), wc)

\* five distinct sources: the bonus is 0.15, not 0.20, and the cap at 1.0 is not hit
C6_Witness ==
    /\ pc = "merged"
    /\ \E i \in 1..Len(ranked) :
          LET g == RawGroup(ranked[i].name)
          IN  /\ DistinctSources(g) = 5
              /\ Len(g) = 6
              /\ ranked[i].confidence < 1000
              /\ ranked[i].confidence * StatedCount(g)
                    < StatedSum(g) + 200 * StatedCount(g) - StatedCount(g)

\* C7: evidence and source of a merged theme are those of the highest-confidence
\* raw member of its group, the first such member in list order on a tie.
C7_BestMember ==
    pc = "merged" =>
        \A i \in 1..Len(ranked) :
            LET g == RawGroup(ranked[i].name)
            IN  \E b \in 1..Len(g) :
                    /\ \A j \in 1..Len(g) : g[j].confidence <= g[b].confidence
                    /\ \A j \in 1..(b - 1) : g[j].confidence < g[b].confidence
                    /\ ranked[i].source = g[b].source
                    /\ ranked[i].evidence = g[b].evidence

\* keyword 0.9 and two LLM members 0.9 tie: the keyword member, met first, is used
C7_Witness ==
    /\ pc = "merged"
    /\ \E i \in 1..Len(ranked) :
          LET g == RawGroup(ranked[i].name)
          IN  /\ Len(g) >= 3
              /\ g[1].confidence < g[2].confidence
              /\ \E j \in 3..Len(g) :
                    /\ g[j].confidence = g[2].confidence
                    /\ g[j].source # g[2].source
                    /\ g[j].evidence # g[2].evidence
              /\ \A j \in 1..Len(g) : g[j].confidence <= g[2].confidence
              /\ ranked[i].source = g[2].source
              /\ ranked[i].evidence = g[2].evidence

\* position of the extractor whose themes carry source s, in the run order
\* sic_mapper, keyword, patent, news, social, embedding, llm
RunIndex(s) ==
    CASE s = "sic" -> 1
      [] s = "keyword" -> 2
      [] s = "patent" -> 3
      [] s = "news" -> 4
      [] s = "social" -> 5
      [] s = "embedding" -> 6
      [] s = "llm" -> 7
      [] OTHER -> 8

FirstProduced(name) ==
    CHOOSE i \in 1..Len(all_themes) :
        /\ normalize(all_themes[i].name) = name
        /\ \A j \in 1..(i - 1) : normalize(all_themes[j].name) # name

\* C8: the themes are in non-increasing order of confidence, and themes of equal
\* confidence are in the order in which their normalized names were first
\* produced in the extractor run.
C8_Ordering ==
    pc = "merged" =>
        \A i \in 1..Len(ranked) : \A j \in (i + 1)..Len(ranked) :
            /\ ranked[i].confidence >= ranked[j].confidence
            /\ ranked[i].confidence = ranked[j].confidence =>
                  /\ FirstProduced(ranked[i].name) < FirstProduced(ranked[j].name)
                  /\ RunIndex(all_themes[FirstProduced(ranked[i].name)].source)
                        <= RunIndex(all_themes[FirstProduced(ranked[j].name)].source)

C8_Witness ==
    /\ pc = "merged"
    /\ Len(ranked) >= 3
    /\ ranked[1].confidence > ranked[2].confidence
    /\ ranked[2].confidence = ranked[3].confidence
    /\ RunIndex(all_themes[FirstProduced(ranked[2].name)].source)
          < RunIndex(all_themes[FirstProduced(ranked[3].name)].source)

\* ------------------------------------------------------------------------
\* Claims about the extractors (SpecExtractors)
\* ------------------------------------------------------------------------

ConfidenceInBounds(themes) ==
    \A k \in 1..Len(themes) :
        themes[k].confidence >= 0 /\ themes[k].confidence <= 1000

\* the sources that produced a raw theme
SourcesUsed == {all_themes[k].source : k \in 1..Len(all_themes)}

\* C4: every theme an extractor produces, and every merged theme of the
\* result, has a confidence between 0.0 and 1.0.
C4_ConfidenceBounds ==
    /\ ConfidenceInBounds(all_themes)
    /\ pc = "merged" =>
          /\ ConfidenceInBounds(ranked)
          /\ ConfidenceInBounds(result_themes)

\* five extractors produced themes, and a theme that several of them confirm
\* has its average plus bonus above 1.0 and its merged confidence at 1.0
C4_Witness ==
    /\ pc = "merged"
    /\ {"sic", "keyword", "patent", "news", "embedding"} \subseteq SourcesUsed
    /\ \E k \in 1..Len(result_themes) :
          LET g == RawGroup(result_themes[k].name)
          IN  /\ result_themes[k].confidence = 1000
              /\ DistinctSources(g) >= 4
              /\ StatedSum(g) + StatedBonus(g) * StatedCount(g) > 1000 * StatedCount(g)

\* ------------------------------------------------------------------------
\* Claims about EnsembleExtractor.extract (Spec)
\* ------------------------------------------------------------------------

\* the call of extract has ended: it returned a ThemeResult or it raised
ExtractEnded == pc \in {"returned", "raised"}

\* the profile has no text, no codes, no sector and no industry
EmptyProfile(p) ==
    /\ p.sector = None /\ p.industry = None /\ p.sic_code = None
    /\ p.business_description = None /\ p.business_summary = None
    /\ p.risk_factors = None /\ p.social_text = None
    /\ p.patent_titles = <<>> /\ p.patent_cpc_codes = <<>>
    /\ p.news_themes = <<>> /\ p.news_titles = <<>>

\* the call of semantic_filter in extract raised, and extract went on without
\* a FilterResult
SemanticFilterFailed == pc # "start" /\ filter_result = NoFilterResult

\* C1: for every profile extract returns a ThemeResult rather than raising;
\* no call of extract ends with an exception.
C1_ExtractNeverRaises == raised = None /\ pc # "raised"

\* C9: extract on an entirely empty profile returns a ThemeResult whose themes
\* are [] and whose total_raw_themes is 0.
C9_EmptyProfileEmptyResult ==
    (EmptyProfile(profile) /\ ExtractEnded) =>
        /\ pc = "returned"
        /\ result_themes = <<>>
        /\ Len(all_themes) = 0

\* C10: when semantic_filter raises in extract, the failure is caught,
\* extraction goes on without a FilterResult, and a ThemeResult is returned.
C10_FilterFailureStillReturns ==
    (SemanticFilterFailed /\ ExtractEnded) =>
        /\ pc = "returned"
        /\ raised = None

\* ------------------------------------------------------------------------
\* Claims about repeated calls (SpecExtractors)
\* ------------------------------------------------------------------------

\* C11: with the taxonomy tables and the embedding model fixed and the LLM
\* extractor left out, a call on the same profile gives the ranked list every
\* earlier call gave: the same names in the same order with the same
\* confidences, whatever the earlier calls left in the embedder's globals and
\* the cache file.
C11_Determinism ==
    pc = "merged" =>
        \A k \in 1..Len(earlier) : earlier[k] = result_themes

\* a second call has ended on a list of three themes or more, some of them
\* found by the embedding extractor, with the globals holding the embeddings
\* the first call left
C11_Witness ==
    /\ pc = "merged"
    /\ Len(earlier) = 1
    /\ Len(result_themes) >= 3
    /\ "embedding" \in SourcesUsed
    /\ embedder = [theme_embeddings |-> "fresh", cache_file |-> "valid"]

\* ------------------------------------------------------------------------
\* taxonomy/normalizer.py: normalize applied to its own output
\* ------------------------------------------------------------------------

\* taxonomy/themes.py ALL_THEMES: the canonical theme names
ALL_THEMES ==
    { THEME_NAMES[i] : i \in 1..Len(THEME_NAMES) }
        \cup { KeywordThemes[i] : i \in 1..Len(KeywordThemes) }

AliasTargets == { ALIASES[k] : k \in DOMAIN ALIASES }

\* the names normalize is applied to: alias keys, alias targets, taxonomy
\* names, and the raw spellings that strip().lower() changes
NormalizeInputs ==
    DOMAIN ALIASES \cup AliasTargets \cup ALL_THEMES \cup DOMAIN RawForms
        \cup {"growth", "quantum widgets"}

InitNormalize ==
    /\ profile = None
    /\ env = None
    /\ use_llm = TRUE
    /\ filter_result = NoFilterResult
    /\ raised = None
    /\ all_themes = <<>>
    /\ slot = 1
    /\ ranked = NotRun
    /\ result_themes = NotRun
    /\ max_themes = 0
    /\ pc = "normalize"
    /\ metadata = Idle
    /\ filter_calls = 0
    /\ earlier = <<>>
    /\ embedder = Idle
    /\ \E x \in NormalizeInputs :
           norm = [x |-> x, once |-> None, twice |-> None, step |-> "input"]
    /\ llm = Idle /\ db = Idle /\ batch = Idle
    /\ pipeline = Idle /\ chunker = Idle /\ semantic = Idle

\* once = normalizer.normalize(x)
NormalizeOnce ==
    /\ pc = "normalize"
    /\ norm.step = "input"
    /\ norm' = [norm EXCEPT !.once = normalize(norm.x), !.step = "once"]
    /\ UNCHANGED <<profile, env, use_llm, max_themes, filter_result>>
    /\ UNCHANGED <<all_themes, slot, ranked, result_themes, raised, pc>>
    /\ UNCHANGED <<metadata, filter_calls, earlier, embedder, llm, db, batch, pipeline, chunker, semantic>>

\* twice = normalizer.normalize(once)
NormalizeTwice ==
    /\ pc = "normalize"
    /\ norm.step = "once"
    /\ norm' = [norm EXCEPT !.twice = normalize(norm.once), !.step = "twice"]
    /\ UNCHANGED <<profile, env, use_llm, max_themes, filter_result>>
    /\ UNCHANGED <<all_themes, slot, ranked, result_themes, raised, pc>>
    /\ UNCHANGED <<metadata, filter_calls, earlier, embedder, llm, db, batch, pipeline, chunker, semantic>>

NextNormalize == NormalizeOnce \/ NormalizeTwice

SpecNormalize == InitNormalize /\ [][NextNormalize]_vars

\* C12: normalize is idempotent on every alias key, alias target and
\* taxonomy name, and a name with no alias comes back as its trimmed,
\* lower-cased self.
C12_NormalizeIdempotent ==
    norm # Idle /\ norm.step = "twice" =>
        /\ norm.twice = norm.once
        /\ StripLower(norm.x) \notin DOMAIN ALIASES => norm.once = StripLower(norm.x)

\* a raw spelling whose cleaned form is an alias key has been normalized twice
C12_Witness ==
    /\ norm # Idle
    /\ norm.step = "twice"
    /\ norm.x = " gpt"
    /\ norm.once = "generative ai"
    /\ norm.twice = "generative ai"

\* ------------------------------------------------------------------------
\* Claims about the result's metadata (SpecExtractors)
\* ------------------------------------------------------------------------

\* what the extractors of the list return for the profile, each on its own
ExtractorOutputs ==
    << SICMapperExtract(profile), KeywordExtract(profile),
       PatentExtract(profile), NewsExtract(profile), SocialExtract(profile),
       IF filter_result = NoFilterResult THEN <<>>
       ELSE EmbeddingExtract(profile, env, embedder, filter_result) >>

RawCount ==
    LET outputs == ExtractorOutputs
    IN  SumSeq([n \in 1..Len(outputs) |-> Len(outputs[n])])

\* C13: total_raw_themes is the number of raw themes the completed
\* extractors returned, before grouping, blocklist and truncation;
\* sources_used is the set of their sources; chunks_total and
\* chunks_relevant are the FilterResult's counts, or 0 without one.
C13_Metadata ==
    pc = "merged" =>
        /\ metadata.total_raw_themes = RawCount
        /\ metadata.total_raw_themes = Len(all_themes)
        /\ metadata.sources_used = SourcesUsed
        /\ filter_result = NoFilterResult =>
               metadata.chunks_total = 0 /\ metadata.chunks_relevant = 0
        /\ filter_result # NoFilterResult =>
               /\ metadata.chunks_total = Len(filter_result.all_chunks)
               /\ metadata.chunks_relevant = Len(filter_result.relevant_chunks)

\* several raw themes were merged into fewer, and the filter kept one chunk
\* of two
C13_Witness ==
    /\ pc = "merged"
    /\ metadata.total_raw_themes > Len(ranked)
    /\ Cardinality(metadata.sources_used) >= 2
    /\ metadata.chunks_total = 2
    /\ metadata.chunks_relevant = 1

\* a call whose filter raised reports no chunks
C13_WitnessNoFilter ==
    /\ pc = "merged"
    /\ filter_result = NoFilterResult
    /\ metadata.total_raw_themes >= 2

\* ------------------------------------------------------------------------
\* extraction/llm_extractor.py and the gate of _get_extractors, which come
\* after the imports of _get_extractors
\* ------------------------------------------------------------------------

\* the variables of EnsembleExtractor.extract, untouched by the other parts
extractVars == <<profile, env, use_llm, max_themes, filter_result, all_themes,
                 slot, ranked, result_themes, raised, pc, metadata,
                 filter_calls, earlier, embedder>>

ExtractIdle ==
    /\ profile = None
    /\ env = None
    /\ use_llm = TRUE
    /\ filter_result = NoFilterResult
    /\ raised = None
    /\ all_themes = <<>>
    /\ slot = 1
    /\ ranked = NotRun
    /\ result_themes = NotRun
    /\ max_themes = 0
    /\ pc = "idle"
    /\ metadata = Idle
    /\ filter_calls = 0
    /\ earlier = <<>>
    /\ embedder = Idle

\* market caps and thresholds are in units of 100 million dollars
LLM_MARKET_CAP_THRESHOLD == 10

\* profile.market_cap: <<>> is None
MarketCaps == { <<>>, <<0>>, <<5>>, <<10>>, <<20>>, <<50>> }

\* the llm_market_cap_threshold a caller gives to run_batch
GivenThresholds == { 5, 10, 50 }

\* config.py: LLM_API_KEY, read from the environment ("" when it is not set)
ApiKeys == { "", "sk-test" }

\* profile.market_cap or 0
OrZero(mc) == IF mc = <<>> THEN 0 ELSE mc[1]

\* _get_extractors: whether ("llm", ...) is appended to the list
LlmListed(u, mc, key, given) ==
    u /\ OrZero(mc) >= LLM_MARKET_CAP_THRESHOLD /\ key # ""

\* JSON values: one record shape per type
JNull == [null |-> TRUE]
JNum(n) == [num |-> n]
JStr(t) == [str |-> t]
JList(q) == [list |-> q]
JDict(f) == [dict |-> f]

IsList(v) == "list" \in DOMAIN v
IsDict(v) == "dict" \in DOMAIN v
IsStr(v) == "str" \in DOMAIN v
IsNum(v) == "num" \in DOMAIN v

\* bool(v)
Truthy(v) ==
    CASE IsNum(v) -> v.num # 0
      [] IsStr(v) -> v.str # ""
      [] IsList(v) -> v.list # <<>>
      [] IsDict(v) -> DOMAIN v.dict # {}
      [] OTHER -> FALSE

ThemeObject(name, confidence) == JDict(("theme" :> name) @@ ("confidence" :> confidence))

DecodeError == [decode_error |-> TRUE]

\* json.loads on the texts a reply carries (numbers in thousandths)
JsonLoads(text) ==
    CASE text = "[{\"theme\": \"AI\", \"confidence\": 0.9}]" ->
             JList(<<ThemeObject(JStr("AI"), JNum(900))>>)
      [] text = "{\"themes\": [{\"theme\": \"Cloud Computing\", \"confidence\": 1.7}]}" ->
             JDict("themes" :> JList(<<ThemeObject(JStr("Cloud Computing"), JNum(1700))>>))
      [] text = "[{\"theme\": \"AI\", \"confidence\": -0.2}, {\"theme\": \"growth\"}]" ->
             JList(<<ThemeObject(JStr("AI"), JNum(-200)),
                     JDict("theme" :> JStr("growth"))>>)
      [] text = "[]" -> JList(<<>>)
      [] text = "42" -> JNum(42000)
      [] text = "{\"foo\": 1}" -> JDict("foo" :> JNum(1000))
      [] text = "[1, 2]" -> JList(<<JNum(1000), JNum(2000)>>)
      [] text = "{\"themes\": \"none\"}" -> JDict("themes" :> JStr("none"))
      [] text = "{\"themes\": null}" -> JDict("themes" :> JNull)
      [] text = "[{\"theme\": \"AI\", \"confidence\": \"high\"}]" ->
             JList(<<ThemeObject(JStr("AI"), JStr("high"))>>)
      [] text = "[{\"theme\": 7, \"confidence\": 0.5}]" ->
             JList(<<ThemeObject(JNum(7000), JNum(500))>>)
      [] OTHER -> DecodeError

\* content.strip() and the removal of a markdown code fence; <fence> stands
\* for the three backquotes, which a string of this module cannot hold
Unfence(content) ==
    CASE content = "<fence>json\n[{\"theme\": \"AI\", \"confidence\": 0.9}]\n<fence>" ->
             "[{\"theme\": \"AI\", \"confidence\": 0.9}]"
      [] content = "<fence>" -> ""
      [] content = "  " -> ""
      [] OTHER -> content

\* message.content of a reply; None is a reply without content
Contents ==
    { None, "", "  ", "<fence>", "I cannot help with that.",
      "[{\"theme\": \"AI\", \"confidence\": 0.9}]",
      "<fence>json\n[{\"theme\": \"AI\", \"confidence\": 0.9}]\n<fence>",
      "{\"themes\": [{\"theme\": \"Cloud Computing\", \"confidence\": 1.7}]}",
      "[{\"theme\": \"AI\", \"confidence\": -0.2}, {\"theme\": \"growth\"}]",
      "[]", "42", "{\"foo\": 1}", "[1, 2]", "{\"themes\": \"none\"}",
      "{\"themes\": null}",
      "[{\"theme\": \"AI\", \"confidence\": \"high\"}]",
      "[{\"theme\": 7, \"confidence\": 0.5}]" }

\* what client.chat.completions.create does: it raises, returns no choice,
\* or returns a message
Replies ==
    { [api |-> a, content |-> None] : a \in {"error", "no_choices"} }
        \cup { [api |-> "ok", content |-> c] : c \in Contents }

\* _call_llm raises: content.strip() on None is outside what the second
\* try catches
CallLlmRaises(reply) == reply.api = "ok" /\ reply.content = None

\* _call_llm when it returns
CallLlm(reply) ==
    IF reply.api # "ok" THEN JList(<<>>)
    ELSE LET parsed == JsonLoads(Unfence(reply.content))
         IN  IF parsed = DecodeError THEN JList(<<>>)
             ELSE IF IsDict(parsed) /\ "themes" \in DOMAIN parsed.dict
                  THEN parsed.dict["themes"]
             ELSE IF IsList(parsed) THEN parsed
             ELSE JList(<<>>)

\* t.get(key)
DictGet(t, key) == IF key \in DOMAIN t.dict THEN t.dict[key] ELSE JNull

\* if t.get("theme") and t.get("confidence")
Kept(t) == Truthy(DictGet(t, "theme")) /\ Truthy(DictGet(t, "confidence"))

\* the list comprehension of extract raises on this element
ElementRaises(t) ==
    \/ ~IsDict(t)
    \/ /\ Kept(t)
       /\ ~IsStr(t.dict["theme"]) \/ ~IsNum(t.dict["confidence"])

\* the list comprehension of extract raises on raw_themes
ComprehensionRaises(raw) ==
    CASE IsList(raw) -> \E i \in 1..Len(raw.list) : ElementRaises(raw.list[i])
      [] IsStr(raw) -> raw.str # ""
      [] IsDict(raw) -> DOMAIN raw.dict # {}
      [] OTHER -> TRUE

RECURSIVE LlmThemes(_)
LlmThemes(q) ==
    IF q = <<>> THEN <<>>
    ELSE IF Kept(Head(q))
         THEN <<Theme(StripLower(Head(q).dict["theme"].str),
                      Min(1000, Max(0, Head(q).dict["confidence"].num)),
                      "llm", "LLM extraction from pre-filtered text")>>
                  \o LlmThemes(Tail(q))
         ELSE LlmThemes(Tail(q))

\* LLMExtractor.extract raises
LlmExtractRaises(key, has_text, reply) ==
    /\ key # ""
    /\ has_text
    /\ CallLlmRaises(reply) \/ ComprehensionRaises(CallLlm(reply))

\* LLMExtractor.extract when it returns
LlmExtract(key, has_text, reply) ==
    IF key = "" \/ ~has_text THEN <<>>
    ELSE LET raw == CallLlm(reply)
         IN  IF IsList(raw) THEN LlmThemes(raw.list) ELSE <<>>

\* the exception that leaves LLMExtractor.extract
LlmErrorType(reply) ==
    IF CallLlmRaises(reply) THEN "AttributeError"
    ELSE LET raw == CallLlm(reply)
         IN  IF IsStr(raw) \/ IsDict(raw) THEN "AttributeError"
             ELSE IF ~IsList(raw) THEN "TypeError"
             ELSE LET bad == CHOOSE i \in 1..Len(raw.list) :
                                 /\ ElementRaises(raw.list[i])
                                 /\ \A j \in 1..(i - 1) : ~ElementRaises(raw.list[j])
                      t == raw.list[bad]
                  IN  IF ~IsDict(t) THEN "AttributeError"
                      ELSE IF ~IsStr(t.dict["theme"]) THEN "AttributeError"
                      ELSE "TypeError"

\* a call of extract for a profile: its market cap and whether it has text
\* to prompt with, and the API key of the environment
InitLlm ==
    /\ ExtractIdle
    /\ norm = Idle /\ db = Idle /\ batch = Idle
    /\ pipeline = Idle /\ chunker = Idle /\ semantic = Idle
    /\ \E mc \in MarketCaps, key \in ApiKeys, text \in BOOLEAN :
           llm = [step |-> "start", market_cap |-> mc, api_key |-> key,
                  has_text |-> text, use_llm |-> FALSE,
                  given |-> LLM_MARKET_CAP_THRESHOLD, listed |-> FALSE,
                  calls |-> 0, reply |-> [api |-> "none", content |-> None],
                  out |-> <<>>, error |-> None, raised |-> None]

\* run_batch: _process_single(..., use_llm=True); the threshold it was given
\* is not handed on
RunBatchProcessSingle ==
    /\ llm.step = "start"
    /\ \E given \in GivenThresholds :
           llm' = [llm EXCEPT !.given = given, !.use_llm = TRUE, !.step = "extract"]
    /\ UNCHANGED extractVars
    /\ UNCHANGED <<norm, db, batch, pipeline, chunker, semantic>>

\* get_themes(ticker, use_llm): EnsembleExtractor(use_llm=use_llm)
GetThemes ==
    /\ llm.step = "start"
    /\ \E u \in BOOLEAN : llm' = [llm EXCEPT !.use_llm = u, !.step = "extract"]
    /\ UNCHANGED extractVars
    /\ UNCHANGED <<norm, db, batch, pipeline, chunker, semantic>>

\* extract: self._get_extractors(profile, filter_result) and the loop over
\* the list it returns.  The imports come first, and the exception of a
\* failed import leaves extract; after them the gate lists the LLM extractor
\* or not, and the loop calls it with the reply the provider gives, catching
\* what it raises
ExtractLlm ==
    /\ llm.step = "extract"
    /\ IF GetExtractorsRaises # None
       THEN llm' = [llm EXCEPT !.step = "raised", !.raised = GetExtractorsRaises]
       ELSE \E reply \in Replies :
              LET listed == LlmListed(llm.use_llm, llm.market_cap, llm.api_key,
                                      llm.given)
                  fails == LlmExtractRaises(llm.api_key, llm.has_text, reply)
              IN  llm' = IF ~listed
                         THEN [llm EXCEPT !.step = "returned"]
                         ELSE [llm EXCEPT
                                 !.step = "returned",
                                 !.listed = TRUE,
                                 !.calls = @ + 1,
                                 !.reply = reply,
                                 !.error = IF fails THEN LlmErrorType(reply)
                                           ELSE None,
                                 !.out = IF fails THEN <<>>
                                         ELSE LlmExtract(llm.api_key, llm.has_text,
                                                         reply)]
    /\ UNCHANGED extractVars
    /\ UNCHANGED <<norm, db, batch, pipeline, chunker, semantic>>

NextLlm ==
    \/ RunBatchProcessSingle
    \/ GetThemes
    \/ ExtractLlm

SpecLlm == InitLlm /\ [][NextLlm]_vars

\* ------------------------------------------------------------------------
\* Claims about the LLM extractor (SpecLlm)
\* ------------------------------------------------------------------------

\* the call of extract has ended
LlmCallEnded == llm # Idle /\ llm.step \in {"raised", "returned"}

\* LLM use is enabled, the market cap (missing counts as 0) is at least the
\* threshold given to run_batch (1e9 by default) and an API key is present
LlmAllowed ==
    /\ llm.use_llm
    /\ OrZero(llm.market_cap) >= llm.given
    /\ llm.api_key # ""

EmbeddingThemes == SelectSeq(all_themes, LAMBDA t : t.source = "embedding")

\* C16: semantic_filter is computed exactly once in a call of extract; the
\* embedding extractor works from that FilterResult and computes no second
\* one.
C16_FilterOnce ==
    /\ pc = "start" => filter_calls = 0
    /\ pc \in {"get_extractors", "merged"} => filter_calls = 1
    /\ pc = "merged" =>
           EmbeddingThemes =
               IF filter_result = NoFilterResult THEN <<>>
               ELSE SortByConfidence(
                        [k \in 1..Len(filter_result.matched_themes) |->
                            Theme(filter_result.matched_themes[k].theme,
                                  filter_result.matched_themes[k].score,
                                  "embedding",
                                  "cosine similarity against theme embedding")])

\* a call whose filter matched two themes, both handed on by the embedding
\* extractor, and one whose filter raised
C16_Witness ==
    /\ pc = "merged"
    /\ filter_calls = 1
    /\ filter_result # NoFilterResult
    /\ Len(filter_result.matched_themes) = 2
    /\ Len(EmbeddingThemes) = 2

C16_WitnessFilterRaised ==
    /\ pc = "merged"
    /\ filter_calls = 1
    /\ filter_result = NoFilterResult
    /\ ~TextIsBlank(profile)

\* ------------------------------------------------------------------------
\* Claims about the SIC mapper (SpecExtractors)
\* ------------------------------------------------------------------------

SicThemes == SelectSeq(all_themes, LAMBDA t : t.source = "sic")

SeqRange(q) == { q[i] : i \in 1..Len(q) }

\* the names each rule yields for the profile
ExactNames ==
    IF profile.sic_code # None /\ profile.sic_code \in DOMAIN SIC_MAPPING
    THEN SeqRange(SIC_MAPPING[profile.sic_code]) ELSE {}

PrefixNames ==
    IF profile.sic_code # None
       /\ SicPrefix(profile.sic_code) \in DOMAIN SIC_MAPPING
       /\ SicPrefix(profile.sic_code) # profile.sic_code
    THEN SeqRange(SIC_MAPPING[SicPrefix(profile.sic_code)]) ELSE {}

SectorNames == IF profile.sector # None THEN {Lower(profile.sector)} ELSE {}

IndustryNames == IF profile.industry # None THEN {Lower(profile.industry)} ELSE {}

\* the confidence of the first rule, in the stated order, that yields the name
FirstRuleConfidence(name) ==
    IF name \in ExactNames THEN 650
    ELSE IF name \in PrefixNames THEN 400
    ELSE IF name \in SectorNames THEN 500
    ELSE 550

\* C17: the SIC mapper emits each name once, with the confidence of the
\* first rule that yields it: exact code 0.65, two-digit prefix plus "00"
\* (when it is not the exact code) 0.40, sector 0.50, industry 0.55.  For
\* SIC 7372, sector Technology, industry Software - Infrastructure it emits
\* exactly (software, 0.65), (technology, 0.50),
\* (software - infrastructure, 0.55).
C17_SicMapperOncePerName ==
    pc = "get_extractors" /\ slot >= 2 =>
        /\ \A i, j \in 1..Len(SicThemes) :
               SicThemes[i].name = SicThemes[j].name => i = j
        /\ Names(SicThemes) =
               ExactNames \cup PrefixNames \cup SectorNames \cup IndustryNames
        /\ \A i \in 1..Len(SicThemes) :
               SicThemes[i].confidence = FirstRuleConfidence(SicThemes[i].name)
        /\ ( /\ profile.sic_code = "7372"
             /\ profile.sector = "Technology"
             /\ profile.industry = "Software - Infrastructure" ) =>
               [i \in 1..Len(SicThemes) |->
                   <<SicThemes[i].name, SicThemes[i].confidence>>]
               = << <<"software", 650>>, <<"technology", 500>>,
                    <<"software - infrastructure", 550>> >>

\* the exact code and its prefix both yield "semiconductors": it is there
\* once, at 0.65, and the prefix adds "electronics" at 0.40
C17_Witness ==
    /\ pc = "get_extractors"
    /\ slot = 2
    /\ profile.sic_code = "3674"
    /\ profile.sector = "Technology"
    /\ [i \in 1..Len(SicThemes) |-> <<SicThemes[i].name, SicThemes[i].confidence>>]
       = << <<"semiconductors", 650>>, <<"electronics", 400>>, <<"technology", 500>> >>

\* ------------------------------------------------------------------------
\* Claims about the keyword extractor (SpecExtractors)
\* ------------------------------------------------------------------------

KeywordThemesOut == SelectSeq(all_themes, LAMBDA t : t.source = "keyword")

\* the texts the keyword extractor combines
CombinedParts ==
    SelectSeq(<<profile.business_description, profile.business_summary,
                profile.risk_factors, profile.social_text>>,
              LAMBDA t : t # None)

\* len(combined_text): the texts and the single spaces between them
CombinedLength ==
    SumSeq([i \in 1..Len(CombinedParts) |-> TextLength(CombinedParts[i])])
        + Len(CombinedParts) - 1

TotalMatches(theme) ==
    SumSeq([i \in 1..Len(CombinedParts) |-> TextMatches(CombinedParts[i], theme)])

KeywordRan == pc = "get_extractors" /\ slot >= 3

\* a theme is emitted exactly when it has a match, and once
KeywordEmittedIffMatched ==
    /\ \A j \in 1..Len(KeywordThemes) :
           (KeywordThemes[j] \in Names(KeywordThemesOut))
               <=> (CombinedParts # <<>> /\ TotalMatches(KeywordThemes[j]) >= 1)
    /\ \A i, j \in 1..Len(KeywordThemesOut) :
           KeywordThemesOut[i].name = KeywordThemesOut[j].name => i = j
    /\ Names(KeywordThemesOut) \subseteq SeqRange(KeywordThemes)

\* C18 as stated: the confidence is min(0.9, 0.35 + density * 0.08) itself
C18_ExactDensityConfidence ==
    KeywordRan =>
        /\ KeywordEmittedIffMatched
        /\ \A i \in 1..Len(KeywordThemesOut) :
               KeywordThemesOut[i].confidence * CombinedLength
                   = Min(900 * CombinedLength,
                         350 * CombinedLength
                             + 80 * 1000 * TotalMatches(KeywordThemesOut[i].name))

\* C18 (amended): the keyword extractor emits a theme exactly when its
\* patterns have at least one match in the combined text, with confidence
\* min(0.9, 0.35 + density * 0.08) rounded to three decimals, density being
\* matches per 1000 characters of the combined text; 2 matches in 500
\* characters give 0.67.
C18_RoundedDensityConfidence ==
    /\ KeywordRan =>
           /\ KeywordEmittedIffMatched
           /\ \A i \in 1..Len(KeywordThemesOut) :
                  IsRounded(KeywordThemesOut[i].confidence,
                            Min(900 * CombinedLength,
                                350 * CombinedLength
                                    + 80 * 1000 * TotalMatches(KeywordThemesOut[i].name)),
                            CombinedLength)
    /\ DensityConfidence(2, 500, 350, 80, 900) = 670

\* 4 matches in the 621 characters of description and summary joined:
\* 0.35 + 0.5153.. is stored as 0.865, next to a theme with one match and
\* a theme without a match
C18_Witness ==
    /\ KeywordRan
    /\ CombinedLength = 621
    /\ \E i \in 1..Len(KeywordThemesOut) :
           /\ KeywordThemesOut[i].name = "artificial intelligence"
           /\ KeywordThemesOut[i].confidence = 865
    /\ \E i \in 1..Len(KeywordThemesOut) :
           /\ KeywordThemesOut[i].name = "cloud computing"
           /\ KeywordThemesOut[i].confidence < 900
    /\ "electric vehicles" \notin Names(KeywordThemesOut)

\* ------------------------------------------------------------------------
\* db/schema.py, db/store.py: the tables and ThemeStore.save_theme_result
\* ------------------------------------------------------------------------

Tickers == {"AAA", "BBB"}

\* a theme of a ThemeResult, as save_theme_result reads it
StoredTheme(n, c, cat) ==
    [name |-> n, confidence |-> c, source |-> "keyword", canonical_category |-> cat]

\* ThemeResult.themes of the results handed to save_theme_result: merged
\* lists, and hand-built ones with a repeated name or a name of None
ResultThemeLists ==
    { <<>>,
      <<StoredTheme("ai", 900, None)>>,
      <<StoredTheme("cloud", 800, "technology")>>,
      <<StoredTheme("ai", 900, None), StoredTheme("cloud", 800, "technology")>>,
      <<StoredTheme("cloud", 700, None), StoredTheme("ai", 300, None)>>,
      <<StoredTheme("ai", 900, None), StoredTheme("ai", 300, None)>>,
      <<StoredTheme("cloud", 800, "technology"), StoredTheme(None, 500, None)>> }

\* ThemeResult: ticker, profile.name, themes.  A name of None fails at the
\* first statement, whatever the themes are
ThemeResults ==
    { [ticker |-> t, name |-> "Acme", themes |-> th] :
        t \in Tickers, th \in ResultThemeLists }
    \cup { [ticker |-> t, name |-> None,
            themes |-> <<StoredTheme("ai", 900, None),
                         StoredTheme("cloud", 800, "technology")>>] :
             t \in Tickers }

\* the tables after init_db on a new file, and the AUTOINCREMENT counter of
\* themes
EmptyTables == [stocks |-> {}, themes |-> {}, stock_themes |-> {}, seq |-> 0]

\* INSERT INTO stocks ... ON CONFLICT(ticker) DO UPDATE; name is NOT NULL
UpsertStockRow(tx, r) ==
    IF r.name = None THEN [tx EXCEPT !.failed = "IntegrityError"]
    ELSE [tx EXCEPT !.stocks = { row \in @ : row.ticker # r.ticker }
                                   \cup {[ticker |-> r.ticker, name |-> r.name]}]

\* DELETE FROM stock_themes WHERE ticker = ?
DeleteAssociations(tx, ticker) ==
    [tx EXCEPT !.stock_themes = { row \in @ : row.ticker # ticker }]

\* INSERT INTO themes ... ON CONFLICT(name) DO UPDATE SET category, description;
\* name is NOT NULL; every attempt advances the AUTOINCREMENT counter
UpsertThemeRow(tx, theme) ==
    IF theme.name = None THEN [tx EXCEPT !.failed = "IntegrityError"]
    ELSE IF \E row \in tx.themes : row.name = theme.name
    THEN [tx EXCEPT !.themes = { IF row.name = theme.name
                                 THEN [row EXCEPT !.category = theme.canonical_category]
                                 ELSE row : row \in @ },
                    !.seq = @ + 1]
    ELSE [tx EXCEPT !.themes = @ \cup {[id |-> tx.seq + 1, name |-> theme.name,
                                        category |-> theme.canonical_category]},
                    !.seq = @ + 1]

\* SELECT id FROM themes WHERE name = ?
ThemeId(tx, name) == (CHOOSE row \in tx.themes : row.name = name).id

\* INSERT INTO stock_themes ...; (ticker, theme_id) is the primary key
InsertAssociation(tx, ticker, theme) ==
    LET id == ThemeId(tx, theme.name)
    IN  IF \E row \in tx.stock_themes : row.ticker = ticker /\ row.theme_id = id
        THEN [tx EXCEPT !.failed = "IntegrityError"]
        ELSE [tx EXCEPT !.stock_themes = @ \cup
                 {[ticker |-> ticker, theme_id |-> id,
                   confidence |-> theme.confidence, source |-> theme.source]}]

\* for theme in result.themes: ..., up to the first statement that fails
RECURSIVE InsertThemes(_, _, _)
InsertThemes(tx, ticker, themes) ==
    IF themes = <<>> \/ tx.failed # None THEN tx
    ELSE LET upserted == UpsertThemeRow(tx, Head(themes))
         IN  IF upserted.failed # None THEN upserted
             ELSE InsertThemes(InsertAssociation(upserted, ticker, Head(themes)),
                               ticker, Tail(themes))

\* the statements inside "with self.conn:", in order
Transaction(tables, r) ==
    LET begun == [stocks |-> tables.stocks, themes |-> tables.themes,
                  stock_themes |-> tables.stock_themes, seq |-> tables.seq,
                  failed |-> None]
        upserted == UpsertStockRow(begun, r)
    IN  IF upserted.failed # None THEN upserted
        ELSE InsertThemes(DeleteAssociations(upserted, r.ticker), r.ticker, r.themes)

TablesOf(tx) ==
    [stocks |-> tx.stocks, themes |-> tx.themes,
     stock_themes |-> tx.stock_themes, seq |-> tx.seq]

\* save_theme_result raises
SaveRaises(tables, r) == Transaction(tables, r).failed

\* the statements before the failing one stay applied
SaveThemeResult_NoRollback(tables, r) == TablesOf(Transaction(tables, r))

\* save_theme_result: the with-block commits on a clean exit and rolls back
\* on an exception
SaveThemeResult(tables, r) ==
    IF SaveRaises(tables, r) # None THEN tables
    ELSE TablesOf(Transaction(tables, r))

StockTickers(tables) == { row.ticker : row \in tables.stocks }

\* str.upper() of a ticker
Upper(ticker) ==
    CASE ticker = "acme" -> "ACME"
      [] ticker = "Brk.b" -> "BRK.B"
      [] ticker = "bbb" -> "BBB"
      [] OTHER -> ticker

\* ensure_theme raises: the SELECT finds no row for None, and name is NOT NULL
EnsureThemeRaises(tables, name) ==
    IF name = None THEN "IntegrityError" ELSE None

\* ensure_theme: the row that is there stays as it is; a new name gets the
\* next id, and the INSERT is committed
EnsureTheme(tables, name, category) ==
    IF \E row \in tables.themes : row.name = name THEN tables
    ELSE IF EnsureThemeRaises(tables, name) # None THEN tables
    ELSE [tables EXCEPT !.themes = @ \cup {[id |-> tables.seq + 1, name |-> name,
                                            category |-> category]},
                        !.seq = @ + 1]

\* upsert_stock raises: name is NOT NULL
UpsertStockRaises(tables, p) ==
    IF p.name = None THEN "IntegrityError" ELSE None

\* upsert_stock: INSERT INTO stocks ... ON CONFLICT(ticker) DO UPDATE with
\* profile.ticker as it is, then commit
UpsertStock(tables, p) ==
    IF UpsertStockRaises(tables, p) # None THEN tables
    ELSE [tables EXCEPT !.stocks = { row \in @ : row.ticker # p.ticker }
                                       \cup {[ticker |-> p.ticker, name |-> p.name]}]

\* upsert_stock_theme raises: in ensure_theme, or at the INSERT, whose ticker
\* REFERENCES stocks(ticker) under PRAGMA foreign_keys=ON
UpsertStockThemeRaises(tables, ticker, theme_name) ==
    IF EnsureThemeRaises(tables, theme_name) # None
    THEN EnsureThemeRaises(tables, theme_name)
    ELSE IF Upper(ticker) \notin StockTickers(tables) THEN "IntegrityError"
    ELSE None

\* upsert_stock_theme: ensure_theme has committed its row before the INSERT
\* INTO stock_themes ... ON CONFLICT(ticker, theme_id) DO UPDATE runs
UpsertStockTheme(tables, ticker, theme_name, confidence, source, category) ==
    LET ensured == EnsureTheme(tables, theme_name, category)
    IN  IF UpsertStockThemeRaises(tables, ticker, theme_name) # None THEN ensured
        ELSE LET id == ThemeId(ensured, theme_name)
             IN  [ensured EXCEPT !.stock_themes =
                     { row \in @ : ~(row.ticker = Upper(ticker) /\ row.theme_id = id) }
                     \cup {[ticker |-> Upper(ticker), theme_id |-> id,
                            confidence |-> confidence, source |-> source]}]

\* ------------------------------------------------------------------------
\* batch.py: run_batch and _process_single over one database file
\* ------------------------------------------------------------------------

\* direct calls of the store's writing methods, and runs of run_batch, in a
\* behaviour
MaxSaves == 2

MaxRuns == 2

\* the tickers argument of run_batch, already upper case
TickerLists == { <<"AAA">>, <<"AAA", "BBB">>, <<"BBB", "BBB">> }

NoResult == [ticker |-> None, name |-> None, themes |-> <<>>]

\* _process_single with the stock row written as soon as the fetch is done
ProcessSingleTables_StockRowFirst(tables, fetch_ok, r) ==
    IF ~fetch_ok THEN tables
    ELSE [tables EXCEPT !.stocks = { row \in @ : row.ticker # r.ticker }
                                       \cup {[ticker |-> r.ticker, name |-> "Acme"]}]

\* _process_single: the tables it leaves.  Nothing before store.save_theme_result
\* writes to stocks, themes or stock_themes.
ProcessSingleTables(tables, fetch_ok, r) ==
    IF ~fetch_ok \/ GetExtractorsRaises # None THEN tables
    ELSE SaveThemeResult(tables, r)

\* _process_single: the exception that leaves it, or None
ProcessSingleRaises(tables, fetch_ok, r) ==
    IF ~fetch_ok THEN "RuntimeError"
    ELSE IF GetExtractorsRaises # None THEN GetExtractorsRaises
    ELSE SaveRaises(tables, r)

\* tickers_to_process = [t for t in tickers_to_process if t not in existing]
NotExisting(tickers, tables) ==
    SelectSeq(tickers, LAMBDA t : t \notin StockTickers(tables))

\* run_batch: the tickers left after "if skip_existing:"
TickersToProcess(tickers, skip_existing, tables) ==
    IF skip_existing THEN NotExisting(tickers, tables) ELSE tickers

\* stats = {"processed": 0, "skipped": 0, "failed": 0, "total": 0}
NoStats == [processed |-> 0, skipped |-> 0, failed |-> 0, total |-> 0]

\* stats["total"] and stats["skipped"] before the loop
StatsBeforeLoop(tickers, skip_existing, tables) ==
    [NoStats EXCEPT
       !.total = Len(tickers),
       !.skipped = IF skip_existing
                   THEN Len(tickers) - Len(NotExisting(tickers, tables))
                   ELSE 0]

\* a ticker that fails is not counted
CountOutcome_FailureUncounted(stats, exception) ==
    IF exception = None THEN [stats EXCEPT !.processed = @ + 1] ELSE stats

\* stats["processed"] += 1 after _process_single, stats["failed"] += 1 in
\* the except clause
CountOutcome(stats, exception) ==
    IF exception = None THEN [stats EXCEPT !.processed = @ + 1]
    ELSE [stats EXCEPT !.failed = @ + 1]

\* def run_batch(db_path, llm_market_cap_threshold, max_themes_per_stock,
\*               skip_existing, tickers)
RunBatchParameters ==
    {"db_path", "llm_market_cap_threshold", "max_themes_per_stock",
     "skip_existing", "tickers"}

\* the keywords with which build_database calls run_batch
BuildDatabaseKeywords ==
    {"db_path", "llm_market_cap_threshold", "max_themes_per_stock",
     "skip_existing", "max_tickers", "refresh_after"}

\* a call with a keyword that is not a parameter raises TypeError before the
\* body runs
CallRaises(keywords, parameters) ==
    IF keywords \subseteq parameters THEN None ELSE "TypeError"

\* max_tickers: int | None = None; <<>> is None
MaxTickersGiven == { <<>>, <<1>> }

NoBuild == [called |-> FALSE]

InitBatch ==
    /\ ExtractIdle
    /\ norm = Idle /\ llm = Idle
    /\ pipeline = Idle /\ chunker = Idle /\ semantic = Idle
    /\ db = [tables |-> EmptyTables, calls |-> 0, before |-> EmptyTables,
             method |-> None, arguments |-> <<>>, result |-> NoResult,
             raised |-> None]
    /\ batch = [phase |-> "idle", runs |-> 0, requested |-> <<>>,
                skip_existing |-> TRUE, planned |-> <<>>, queue |-> <<>>,
                failed |-> {}, processed |-> {}, start |-> EmptyTables,
                prev_failed |-> {}, prev_start |-> {}, saved_between |-> {},
                stats |-> NoStats, done |-> <<>>, build |-> NoBuild]

\* store.save_theme_result(result), called on the store between two runs
SaveThemeResultCall ==
    /\ batch.phase = "idle"
    /\ db.calls < MaxSaves
    /\ \E r \in ThemeResults :
           /\ db' = [tables |-> SaveThemeResult(db.tables, r),
                     calls |-> db.calls + 1,
                     before |-> db.tables,
                     method |-> "save_theme_result",
                     arguments |-> <<>>,
                     result |-> r,
                     raised |-> SaveRaises(db.tables, r)]
           /\ batch' = [batch EXCEPT !.saved_between =
                           IF SaveRaises(db.tables, r) = None
                           THEN @ \cup {r.ticker} ELSE @]
    /\ UNCHANGED extractVars
    /\ UNCHANGED <<norm, llm, pipeline, chunker, semantic>>

\* (name, category) of the direct calls of ensure_theme
EnsureThemeArguments ==
    { <<"ai", None>>, <<"cloud", "technology">>, <<None, None>> }

\* store.ensure_theme(name, category), called on the store between two runs
EnsureThemeCall ==
    /\ batch.phase = "idle"
    /\ db.calls < MaxSaves
    /\ \E a \in EnsureThemeArguments :
           db' = [tables |-> EnsureTheme(db.tables, a[1], a[2]),
                  calls |-> db.calls + 1,
                  before |-> db.tables,
                  method |-> "ensure_theme",
                  arguments |-> a,
                  result |-> NoResult,
                  raised |-> EnsureThemeRaises(db.tables, a[1])]
    /\ UNCHANGED batch
    /\ UNCHANGED extractVars
    /\ UNCHANGED <<norm, llm, pipeline, chunker, semantic>>

\* store.upsert_stock(profile), called on the store between two runs
UpsertStockCall ==
    /\ batch.phase = "idle"
    /\ db.calls < MaxSaves
    /\ \E t \in Tickers, n \in {"Acme Inc", None} :
           LET p == [ticker |-> t, name |-> n]
           IN  /\ db' = [tables |-> UpsertStock(db.tables, p),
                         calls |-> db.calls + 1,
                         before |-> db.tables,
                         method |-> "upsert_stock",
                         arguments |-> <<p>>,
                         result |-> NoResult,
                         raised |-> UpsertStockRaises(db.tables, p)]
               /\ batch' = [batch EXCEPT !.saved_between =
                               IF UpsertStockRaises(db.tables, p) = None
                               THEN @ \cup {t} ELSE @]
    /\ UNCHANGED extractVars
    /\ UNCHANGED <<norm, llm, pipeline, chunker, semantic>>

\* store.upsert_stock_theme(ticker, theme_name, confidence, source), called
\* on the store between two runs
UpsertStockThemeCall ==
    /\ batch.phase = "idle"
    /\ db.calls < MaxSaves
    /\ \E t \in {"AAA", "bbb"}, n \in {"ai", "cloud"} :
           db' = [tables |-> UpsertStockTheme(db.tables, t, n, 300, "manual", None),
                  calls |-> db.calls + 1,
                  before |-> db.tables,
                  method |-> "upsert_stock_theme",
                  arguments |-> <<t, n, 300, "manual">>,
                  result |-> NoResult,
                  raised |-> UpsertStockThemeRaises(db.tables, t, n)]
    /\ UNCHANGED batch
    /\ UNCHANGED extractVars
    /\ UNCHANGED <<norm, llm, pipeline, chunker, semantic>>

\* run_batch up to the loop: the tickers given, the skip of existing ones
RunBatchStart ==
    /\ batch.phase = "idle"
    /\ batch.runs < MaxRuns
    /\ \E tickers \in TickerLists, skip \in BOOLEAN :
           batch' = [batch EXCEPT
                       !.phase = "running",
                       !.requested = tickers,
                       !.skip_existing = skip,
                       !.planned = TickersToProcess(tickers, skip, db.tables),
                       !.queue = TickersToProcess(tickers, skip, db.tables),
                       !.failed = {},
                       !.processed = {},
                       !.start = db.tables,
                       !.stats = StatsBeforeLoop(tickers, skip, db.tables),
                       !.done = <<>>,
                       !.build = NoBuild]
    /\ UNCHANGED db
    /\ UNCHANGED extractVars
    /\ UNCHANGED <<norm, llm, pipeline, chunker, semantic>>

\* one turn of the loop of run_batch: _process_single inside try/except
ProcessSingle ==
    /\ batch.phase = "running"
    /\ batch.queue # <<>>
    /\ LET ticker == Head(batch.queue)
       IN  \E fetch_ok \in BOOLEAN,
              r \in { x \in ThemeResults : x.ticker = ticker } :
               /\ db' = [db EXCEPT !.tables = ProcessSingleTables(@, fetch_ok, r)]
               /\ batch' = [batch EXCEPT
                              !.queue = Tail(@),
                              !.failed =
                                  IF ProcessSingleRaises(db.tables, fetch_ok, r) # None
                                  THEN @ \cup {ticker} ELSE @,
                              !.processed =
                                  IF ProcessSingleRaises(db.tables, fetch_ok, r) = None
                                  THEN @ \cup {ticker} ELSE @,
                              !.stats = CountOutcome(@,
                                  ProcessSingleRaises(db.tables, fetch_ok, r)),
                              !.done = Append(@, ticker)]
    /\ UNCHANGED extractVars
    /\ UNCHANGED <<norm, llm, pipeline, chunker, semantic>>

\* the loop is over: store.close(), return stats
RunBatchEnd ==
    /\ batch.phase = "running"
    /\ batch.queue = <<>>
    /\ batch' = [batch EXCEPT
                   !.phase = "idle",
                   !.runs = @ + 1,
                   !.prev_failed = batch.failed,
                   !.prev_start = StockTickers(batch.start),
                   !.saved_between = {}]
    /\ UNCHANGED db
    /\ UNCHANGED extractVars
    /\ UNCHANGED <<norm, llm, pipeline, chunker, semantic>>

\* build_database(max_tickers=...): return run_batch(db_path=...,
\* max_tickers=max_tickers, refresh_after=refresh_after)
\* (one call)
BuildDatabase ==
    /\ batch.phase = "idle"
    /\ ~batch.build.called
    /\ \E max_tickers \in MaxTickersGiven, skip \in BOOLEAN, tickers \in TickerLists :
          LET exception == CallRaises(BuildDatabaseKeywords, RunBatchParameters)
          IN  batch' =
                  IF exception # None
                  THEN [batch EXCEPT
                          !.build = [called |-> TRUE, max_tickers |-> max_tickers,
                                     raised |-> exception]]
                  ELSE [batch EXCEPT
                          !.phase = "running",
                          !.requested = tickers,
                          !.skip_existing = skip,
                          !.planned = TickersToProcess(tickers, skip, db.tables),
                          !.queue = TickersToProcess(tickers, skip, db.tables),
                          !.failed = {},
                          !.processed = {},
                          !.start = db.tables,
                          !.stats = StatsBeforeLoop(tickers, skip, db.tables),
                          !.done = <<>>,
                          !.build = [called |-> TRUE, max_tickers |-> max_tickers,
                                     raised |-> None]]
    /\ UNCHANGED db
    /\ UNCHANGED extractVars
    /\ UNCHANGED <<norm, llm, pipeline, chunker, semantic>>

\* build_database called on a store that direct saves have filled
NextBuild == SaveThemeResultCall \/ BuildDatabase

SpecBuild == InitBatch /\ [][NextBuild]_vars

NextBatch ==
    \/ SaveThemeResultCall
    \/ EnsureThemeCall
    \/ UpsertStockCall
    \/ UpsertStockThemeCall
    \/ RunBatchStart
    \/ ProcessSingle
    \/ RunBatchEnd

SpecBatch == InitBatch /\ [][NextBatch]_vars

\* ------------------------------------------------------------------------
\* Claims about the store and the batch (SpecBatch)
\* ------------------------------------------------------------------------

RowsOf(rows, ticker) == { row \in rows : row.ticker = ticker }

SameTables(a, b) ==
    /\ a.stocks = b.stocks
    /\ a.themes = b.themes
    /\ a.stock_themes = b.stock_themes

\* the association rows a result stands for, by the ids of the themes table
ResultAssociations(tables, r) ==
    { [ticker |-> r.ticker, theme_id |-> ThemeId(tables, r.themes[i].name),
       confidence |-> r.themes[i].confidence, source |-> r.themes[i].source] :
        i \in 1..Len(r.themes) }

\* C19: save_theme_result is all-or-nothing.  After a call that returned,
\* the stock row is there and the ticker's associations are exactly the
\* themes of the result, whatever it had before; after a call that raised,
\* stocks, themes and stock_themes are as they were before the call.
C19_SaveAllOrNothing ==
    db # Idle /\ db.method = "save_theme_result" =>
        IF db.raised = None
        THEN /\ [ticker |-> db.result.ticker, name |-> db.result.name]
                    \in db.tables.stocks
             /\ Cardinality(RowsOf(db.tables.stocks, db.result.ticker)) = 1
             /\ \A i \in 1..Len(db.result.themes) :
                    \E row \in db.tables.themes : row.name = db.result.themes[i].name
             /\ RowsOf(db.tables.stock_themes, db.result.ticker)
                    = ResultAssociations(db.tables, db.result)
             /\ Cardinality(RowsOf(db.tables.stock_themes, db.result.ticker))
                    = Len(db.result.themes)
             /\ \A t \in Tickers \ {db.result.ticker} :
                    /\ RowsOf(db.tables.stocks, t) = RowsOf(db.before.stocks, t)
                    /\ RowsOf(db.tables.stock_themes, t)
                           = RowsOf(db.before.stock_themes, t)
        ELSE SameTables(db.tables, db.before)

\* a save that failed at its second theme, after the stock row, the delete
\* and the first theme, on tables that held two themes of the same ticker
C19_Witness ==
    /\ db # Idle
    /\ db.calls = 2
    /\ db.method = "save_theme_result"
    /\ db.raised = "IntegrityError"
    /\ db.result.name = "Acme"
    /\ Len(db.result.themes) = 2
    /\ db.result.themes[1].name = "cloud"
    /\ Cardinality(RowsOf(db.before.stock_themes, db.result.ticker)) = 2
    /\ SameTables(db.tables, db.before)

\* a save that replaced two associations of the ticker by one
C19_WitnessReplaced ==
    /\ db # Idle
    /\ db.calls = 2
    /\ db.method = "save_theme_result"
    /\ db.raised = None
    /\ Cardinality(RowsOf(db.before.stock_themes, db.result.ticker)) = 2
    /\ Cardinality(RowsOf(db.tables.stock_themes, db.result.ticker)) = 1

\* C20: a ticker that failed in a run of run_batch leaves the tables as the
\* run found them and is not in stocks because of the run, so the next run
\* with skip_existing processes it again; a ticker saved earlier is skipped.
C20_FailedTickerRetried ==
    batch # Idle =>
        /\ batch.phase = "running" =>
               \A t \in batch.failed :
                   /\ RowsOf(db.tables.stocks, t) = RowsOf(batch.start.stocks, t)
                   /\ RowsOf(db.tables.stock_themes, t)
                          = RowsOf(batch.start.stock_themes, t)
        /\ batch.phase = "running" /\ batch.processed = {} =>
               SameTables(db.tables, batch.start)
        /\ batch.phase = "running" /\ batch.skip_existing =>
               /\ \A t \in SeqRange(batch.requested) :
                      ( /\ t \in batch.prev_failed
                        /\ t \notin batch.prev_start
                        /\ t \notin batch.saved_between ) =>
                          t \in SeqRange(batch.planned)
               /\ \A t \in StockTickers(batch.start) :
                      t \notin SeqRange(batch.planned)

\* the second run: BBB failed in the first and is processed again, AAA was
\* saved before the first run and is skipped
C20_Witness ==
    /\ batch # Idle
    /\ batch.phase = "running"
    /\ batch.runs = 1
    /\ batch.skip_existing
    /\ batch.requested = <<"AAA", "BBB">>
    /\ batch.prev_failed = {"BBB"}
    /\ batch.planned = <<"BBB">>
    /\ "AAA" \in StockTickers(batch.start)
    /\ batch.failed = {"BBB"}

\* ------------------------------------------------------------------------
\* data/pipeline.py: DataPipeline._merge
\* ------------------------------------------------------------------------

\* provider profiles handed to one call of _merge
MaxProviders == 2

\* what a provider returns: a text field, a numeric field that may be None
\* and a list field
ProviderProfiles ==
    { [name |-> n, market_cap |-> mc, patent_titles |-> pt, patent_count |-> Len(pt),
       data_sources |-> IF mc = JNull THEN <<"sec_edgar">> ELSE <<"yahoo">>] :
        n \in {JStr(""), JStr("Acme"), JStr("Acme Inc")},
        mc \in {JNull, JNum(0), JNum(20), JNum(50)},
        pt \in { <<>>, <<"t1">>, <<"t2", "t1">> } }

\* the profiles of the providers, each tagged with its own data source
ProviderLists ==
    UNION { [1..n -> ProviderProfiles] : n \in 0..MaxProviders }

\* scalar_fields of _merge: of its thirteen fields, a text and a number
ScalarFields == {"name", "market_cap"}

ListFields == {"patent_titles", "data_sources"}

\* the value of the field in CompanyProfile(ticker=..., name="")
FieldDefault(field) == IF field = "name" THEN JStr("") ELSE JNull

\* for profile in profiles: if value and not getattr(merged, field_name): setattr
RECURSIVE MergeScalar(_, _, _)
MergeScalar(current, profiles, field) ==
    IF profiles = <<>> THEN current
    ELSE MergeScalar(
             IF Truthy(Head(profiles)[field]) /\ ~Truthy(current)
             THEN Head(profiles)[field] ELSE current,
             Tail(profiles), field)

\* for profile in profiles: merged.<list>.extend(profile.<list>)
RECURSIVE ExtendAll(_, _)
ExtendAll(profiles, field) ==
    IF profiles = <<>> THEN <<>>
    ELSE Head(profiles)[field] \o ExtendAll(Tail(profiles), field)

\* DataPipeline._merge
MergeProfiles(ticker, profiles) ==
    [ticker |-> Upper(ticker),
     name |-> MergeScalar(FieldDefault("name"), profiles, "name"),
     market_cap |-> MergeScalar(FieldDefault("market_cap"), profiles, "market_cap"),
     patent_titles |-> ExtendAll(profiles, "patent_titles"),
     data_sources |-> ExtendAll(profiles, "data_sources"),
     patent_count |-> SumSeq([i \in 1..Len(profiles) |-> profiles[i].patent_count])]

InitPipeline ==
    /\ ExtractIdle
    /\ norm = Idle /\ llm = Idle /\ db = Idle /\ batch = Idle
    /\ chunker = Idle /\ semantic = Idle
    /\ \E t \in {"acme", "ACME", "Brk.b"}, ps \in ProviderLists :
           pipeline = [ticker |-> t, profiles |-> ps, merged |-> Idle, step |-> "fetched"]

\* merged = self._merge(ticker, profiles)
Merge ==
    /\ pipeline.step = "fetched"
    /\ pipeline' = [pipeline EXCEPT
                      !.merged = MergeProfiles(pipeline.ticker, pipeline.profiles),
                      !.step = "merged"]
    /\ UNCHANGED extractVars
    /\ UNCHANGED <<norm, llm, db, batch, chunker, semantic>>

NextPipeline == Merge

SpecPipeline == InitPipeline /\ [][NextPipeline]_vars

\* a value that is None or the empty string; 0 is a value ("first non-None
\* value wins", _merge's docstring)
IsEmptyValue(v) == v = JNull \/ (IsStr(v) /\ v.str = "")

\* the profiles, in list order, whose value of the field is not empty
NonEmptyAt(field) ==
    { i \in 1..Len(pipeline.profiles) : ~IsEmptyValue(pipeline.profiles[i][field]) }

FirstNonEmpty(field) ==
    CHOOSE i \in NonEmptyAt(field) : \A j \in NonEmptyAt(field) : i <= j

\* the list fields hold the providers' lists one after the other
ListsConcatenated ==
    \A field \in ListFields :
        /\ Len(pipeline.merged[field])
               = SumSeq([i \in 1..Len(pipeline.profiles) |->
                            Len(pipeline.profiles[i][field])])
        /\ \A i \in 1..Len(pipeline.profiles) :
               LET before == SumSeq([j \in 1..(i - 1) |->
                                        Len(pipeline.profiles[j][field])])
               IN  \A k \in 1..Len(pipeline.profiles[i][field]) :
                       pipeline.merged[field][before + k]
                           = pipeline.profiles[i][field][k]

\* C21: the merged profile has the ticker in upper case, in every scalar
\* field the first non-empty value among the provider profiles in list
\* order, which no later provider overwrites (patent_count, which is never
\* None, is the count of the first provider), and in every list field the
\* providers' lists one after the other, duplicates kept.
C21_FirstProviderWins ==
    pipeline # Idle /\ pipeline.step = "merged" =>
        /\ pipeline.merged.ticker = Upper(pipeline.ticker)
        /\ \A field \in ScalarFields :
               IF NonEmptyAt(field) = {}
               THEN IsEmptyValue(pipeline.merged[field])
               ELSE pipeline.merged[field]
                        = pipeline.profiles[FirstNonEmpty(field)][field]
        /\ pipeline.profiles # <<>> =>
               pipeline.merged.patent_count = pipeline.profiles[1].patent_count
        /\ ListsConcatenated

\* ------------------------------------------------------------------------
\* semantic/filter.py and semantic/embedder.py called directly, several
\* times in one process: the globals of embedder.py last from call to call
\* ------------------------------------------------------------------------

MaxFilterCalls == 2

\* the text fields of a profile; a list of titles may hold a None
FilterProfiles ==
    { [business_description |-> x.bd, business_summary |-> None,
       risk_factors |-> None, social_text |-> None,
       patent_titles |-> x.pt, news_titles |-> <<>>] :
        x \in { [bd |-> None, pt |-> <<>>],
                [bd |-> "desc_ai", pt |-> <<"Neural net training">>],
                [bd |-> "desc_ai", pt |-> <<"Wafer process", None>>] } }

Thresholds == {450, SIMILARITY_THRESHOLD, 800}

\* THEME_CACHE_PATH may also hold what torch.load cannot read
FilterCacheFiles == CacheFiles \cup {"corrupt"}

\* the embedding model during one call, and whether torch.save fails
FilterEnvs ==
    { [fails |-> e.fails, sims |-> e.sims, save_fails |-> FALSE] : e \in Envs }
    \cup { [fails |-> FALSE, sims |-> e.sims, save_fails |-> TRUE] :
             e \in {x \in Envs : ~x.fails /\ Len(x.sims) = 1} }

\* get_theme_embeddings goes on to model.encode(theme_texts)
Recomputes(emb) == emb.theme_embeddings = "unset" /\ emb.cache_file # "valid"

\* get_theme_embeddings raises
GetThemeEmbeddingsRaises(emb, e) == Recomputes(emb) /\ e.fails

\* the globals and the cache file after get_theme_embeddings: a failure of
\* torch.save is logged and leaves the file as it was
GetThemeEmbeddingsSave(emb, e) ==
    LET after == GetThemeEmbeddings(emb, e)
    IN  IF Recomputes(emb) /\ ~e.fails /\ e.save_fails
        THEN [after EXCEPT !.cache_file = emb.cache_file]
        ELSE after

\* the rows of a tensor of theme embeddings
Rows(theme_embeddings) ==
    IF theme_embeddings = "fresh" THEN Len(THEME_NAMES) ELSE Len(THEME_NAMES) - 1

\* return _theme_names, _theme_embeddings
ThemeEmbeddingsReturned(emb, e) ==
    [theme_names |-> THEME_NAMES,
     rows |-> Rows(GetThemeEmbeddings(emb, e).theme_embeddings)]

NoCall == [kind |-> "none"]

InitFilter ==
    /\ ExtractIdle
    /\ norm = Idle /\ llm = Idle /\ db = Idle /\ batch = Idle
    /\ pipeline = Idle /\ chunker = Idle
    /\ \E c \in FilterCacheFiles :
           semantic = [emb |-> [theme_embeddings |-> "unset", cache_file |-> c],
                       calls |-> 0, call |-> NoCall]

\* get_theme_embeddings()
GetThemeEmbeddingsCall ==
    /\ semantic.calls < MaxFilterCalls
    /\ \E e \in {x \in FilterEnvs : Len(x.sims) <= 1} :
          LET emb == semantic.emb
              fails == GetThemeEmbeddingsRaises(emb, e)
          IN  semantic' =
                  [emb |-> GetThemeEmbeddingsSave(emb, e),
                   calls |-> semantic.calls + 1,
                   call |-> [kind |-> "get_theme_embeddings",
                             before |-> emb,
                             recomputed |-> Recomputes(emb) /\ ~e.fails,
                             raised |-> IF fails THEN "Exception" ELSE None,
                             result |-> IF fails THEN NoFilterResult
                                        ELSE ThemeEmbeddingsReturned(emb, e)]]
    /\ UNCHANGED extractVars
    /\ UNCHANGED <<norm, llm, db, batch, pipeline, chunker>>

\* semantic_filter(profile, threshold)
SemanticFilterCall ==
    /\ semantic.calls < MaxFilterCalls
    /\ \E p \in FilterProfiles, threshold \in Thresholds, e \in FilterEnvs :
          LET emb == semantic.emb
              fails == FilterCallRaises(p, e, emb, threshold)
          IN  semantic' =
                  [emb |-> IF CollectAllTextRaises(p) \/ TextIsBlank(p) THEN emb
                           ELSE GetThemeEmbeddingsSave(emb, e),
                   calls |-> semantic.calls + 1,
                   call |-> [kind |-> "semantic_filter",
                             before |-> emb,
                             profile |-> p, threshold |-> threshold, env |-> e,
                             raised |-> IF ~fails THEN None
                                        ELSE IF CollectAllTextRaises(p) THEN "TypeError"
                                        ELSE IF e.fails THEN "Exception"
                                        ELSE "IndexError",
                             result |-> IF fails THEN NoFilterResult
                                        ELSE FilterCallResult(p, e, emb, threshold)]]
    /\ UNCHANGED extractVars
    /\ UNCHANGED <<norm, llm, db, batch, pipeline, chunker>>

NextFilter == GetThemeEmbeddingsCall \/ SemanticFilterCall

SpecFilter == InitFilter /\ [][NextFilter]_vars

FilterCalled == semantic # Idle /\ semantic.call.kind = "semantic_filter"

\* C22: semantic_filter never propagates a failure of text collection: when
\* collecting the profile's text fails, it returns an empty FilterResult.
C22_CollectFailureGivesEmpty ==
    FilterCalled /\ CollectAllTextRaises(semantic.call.profile) =>
        /\ semantic.call.raised = None
        /\ semantic.call.result = EmptyFilterResult

\* the similarity matrix of the last call of semantic_filter
SimilarityUsed ==
    LET c == semantic.call
    IN  IF ThemeEmbeddingsUsed(c.before, c.env) = "stale"
        THEN [i \in 1..Len(c.env.sims) |-> StaleRow(c.env.sims[i])]
        ELSE c.env.sims

FilterReturned == FilterCalled /\ semantic.call.raised = None

\* the scores at or above the threshold that the chunks have for theme j
ScoresAtOrAbove(j) ==
    { SimilarityUsed[i][j] :
        i \in { k \in 1..Len(SimilarityUsed) :
                  /\ j <= Len(SimilarityUsed[k])
                  /\ SimilarityUsed[k][j] >= semantic.call.threshold } }

\* C24: in the FilterResult of semantic_filter a chunk is in relevant_chunks
\* iff its maximum similarity to any theme is at least the threshold,
\* matched_themes maps a theme to the maximum of the similarities at or above
\* the threshold that the chunks have for it, so every recorded score is at
\* least the threshold, and relevant_count = len(relevant_chunks) <=
\* total_chunks = len(all_chunks).
C24_FilterResult ==
    FilterReturned =>
        LET c == semantic.call
            r == c.result
        IN  /\ r.relevant_count = Len(r.relevant_chunks)
            /\ r.total_chunks = Len(r.all_chunks)
            /\ r.relevant_count <= r.total_chunks
            /\ \A k \in 1..Len(r.matched_themes) :
                   r.matched_themes[k].score >= c.threshold
            /\ ~TextIsBlank(c.profile) =>
                  /\ Len(r.all_chunks) = Len(c.env.sims)
                  /\ \A i \in 1..Len(SimilarityUsed) :
                         (\E k \in 1..Len(r.relevant_chunks) : r.relevant_chunks[k] = i)
                             <=> RowMax(SimilarityUsed[i]) >= c.threshold
                  /\ \A j \in 1..Len(THEME_NAMES) :
                         LET at == { k \in 1..Len(r.matched_themes) :
                                       r.matched_themes[k].theme = THEME_NAMES[j] }
                         IN  IF ScoresAtOrAbove(j) = {} THEN at = {}
                             ELSE /\ Cardinality(at) = 1
                                  /\ \A k \in at :
                                        /\ r.matched_themes[k].score \in ScoresAtOrAbove(j)
                                        /\ \A x \in ScoresAtOrAbove(j) :
                                               x <= r.matched_themes[k].score

\* two chunks at the default threshold: the first is below it for both
\* themes, the second has a score equal to it; and two relevant chunks of
\* which the second raises the first one's score
C24_Witness ==
    /\ FilterReturned
    /\ semantic.call.threshold = SIMILARITY_THRESHOLD
    /\ semantic.call.env.sims = << <<300, 450>>, <<1000, 600>> >>
    /\ semantic.call.result.relevant_chunks = <<2>>
    /\ semantic.call.result.total_chunks = 2
    /\ semantic.call.result.matched_themes
           = << [theme |-> "artificial intelligence", score |-> 1000],
                [theme |-> "cloud computing", score |-> 600] >>

C24_WitnessMaximum ==
    /\ FilterReturned
    /\ semantic.call.threshold = SIMILARITY_THRESHOLD
    /\ semantic.call.env.sims = << <<720, 300>>, <<1000, 600>> >>
    /\ semantic.call.result.relevant_chunks = <<1, 2>>
    /\ semantic.call.result.matched_themes[1].score = 1000

EmbeddingsCalled == semantic # Idle /\ semantic.call.kind = "get_theme_embeddings"

\* once the globals hold theme embeddings, a call of get_theme_embeddings
\* or of semantic_filter leaves the globals and the cache file as they are,
\* and get_theme_embeddings returns the stored tensor without encoding
StoredEmbeddingsOnlyRead ==
    semantic # Idle /\ semantic.emb.theme_embeddings # "unset" =>
        /\ semantic'.emb = semantic.emb
        /\ semantic'.call.kind = "get_theme_embeddings" =>
              /\ ~semantic'.call.recomputed
              /\ semantic'.call.raised = None
              /\ semantic'.call.result.rows = Rows(semantic.emb.theme_embeddings)

\* C25 as stated: the theme embeddings are populated once and only read
\* afterwards, and they are recomputed from the model only when the cache
\* file's vector count disagrees with the taxonomy size or no cache exists.
C25_RecomputedOnlyOnMismatch ==
    /\ [][StoredEmbeddingsOnlyRead]_vars
    /\ [](EmbeddingsCalled /\ semantic.call.recomputed =>
             /\ semantic.call.before.theme_embeddings = "unset"
             /\ semantic.call.before.cache_file \in {"absent", "stale"})

\* C25, amended: the theme embeddings are populated once and only read
\* afterwards, and they are recomputed from the model only when the globals
\* are unset and the cache file is absent, cannot be loaded, or holds a
\* vector count that disagrees with the taxonomy size.
C25_PopulatedOnce ==
    /\ [][StoredEmbeddingsOnlyRead]_vars
    /\ [](EmbeddingsCalled /\ semantic.call.recomputed =>
             /\ semantic.call.before.theme_embeddings = "unset"
             /\ semantic.call.before.cache_file \in {"absent", "stale", "corrupt"})

\* the first call recomputed the embeddings beside an unreadable cache file
\* which torch.save could not replace; the second call returned the stored
\* embeddings and left the file alone
C25_Witness ==
    /\ EmbeddingsCalled
    /\ semantic.calls = 2
    /\ semantic.call.before = [theme_embeddings |-> "fresh", cache_file |-> "corrupt"]
    /\ semantic.emb = semantic.call.before
    /\ ~semantic.call.recomputed
    /\ semantic.call.result.rows = Len(THEME_NAMES)

\* C29: every call of get_theme_embeddings that returns gives a theme-name
\* list and an embedding matrix with the same number of entries, after any
\* sequence of earlier calls.
C29_NamesMatchEmbeddings ==
    EmbeddingsCalled /\ semantic.call.raised = None =>
        Len(semantic.call.result.theme_names) = semantic.call.result.rows

\* C23: build_database returns the batch statistics dict (processed,
\* failed, skipped, total), and when max_tickers is set the run processes
\* at most that many tickers.
C23_BuildDatabaseReturnsStats ==
    batch # Idle /\ batch.build.called =>
        /\ batch.build.raised = None
        /\ batch.build.max_tickers # <<>> =>
               Len(batch.done) <= batch.build.max_tickers[1]

\* C30: run_batch processes the tickers one at a time in list order, a
\* failure while processing one ticker never keeps the following ones from
\* being processed, and on return processed + failed + skipped = total.
C30_EveryTickerCounted ==
    batch # Idle =>
        /\ batch.phase = "running" =>
              /\ batch.done \o batch.queue = batch.planned
              /\ batch.stats.processed + batch.stats.failed = Len(batch.done)
        /\ batch.phase = "idle" /\ batch.runs > 0 /\ ~batch.build.called =>
              /\ batch.done = batch.planned
              /\ batch.stats.total = Len(batch.requested)
              /\ batch.stats.skipped = Len(batch.requested) - Len(batch.planned)
              /\ batch.stats.processed + batch.stats.failed + batch.stats.skipped
                     = batch.stats.total

\* a run of two tickers has returned: the first failed and the second was
\* processed after it
C30_Witness ==
    /\ batch # Idle
    /\ batch.phase = "idle"
    /\ batch.runs > 0
    /\ batch.requested = <<"AAA", "BBB">>
    /\ batch.done = <<"AAA", "BBB">>
    /\ batch.stats = [processed |-> 0, skipped |-> 0, failed |-> 2, total |-> 2]

\* a run that skips a stored ticker and fails on the other
C30_WitnessSkipped ==
    /\ batch # Idle
    /\ batch.phase = "idle"
    /\ batch.runs > 0
    /\ batch.requested = <<"AAA", "BBB">>
    /\ batch.stats = [processed |-> 0, skipped |-> 1, failed |-> 1, total |-> 2]

\* ------------------------------------------------------------------------
\* Claims about the patent mapper (SpecExtractors)
\* ------------------------------------------------------------------------

PatentThemes == SelectSeq(all_themes, LAMBDA t : t.source = "patent")

\* the keys tried for a code, in order
KeysTried(cpc_code) ==
    LET code == StripCode(cpc_code)
    IN  <<code, CodePrefix(code, 4), CodePrefix(code, 3)>>

\* the positions of the tried keys that are in the CPC table
KeysFound(code) == { k \in 1..3 : KeysTried(code)[k] \in DOMAIN CPC_MAPPING }

\* the themes of the first key found, none when no key is found
FirstKeyThemes(code) ==
    IF KeysFound(code) = {} THEN {}
    ELSE SeqRange(CPC_MAPPING[KeysTried(code)[
             CHOOSE k \in KeysFound(code) : \A m \in KeysFound(code) : k <= m]])

\* the codes of the profile that count for the theme
CodesFor(theme) ==
    { i \in 1..Len(profile.patent_cpc_codes) :
        theme \in FirstKeyThemes(profile.patent_cpc_codes[i]) }

\* the patent mapper has just returned
PatentRan == pc = "get_extractors" /\ slot = 4

\* the position of a code in the profile's list
CodeAt(cpc_code) ==
    CHOOSE i \in 1..Len(profile.patent_cpc_codes) :
        profile.patent_cpc_codes[i] = cpc_code

\* C27: each CPC code counts for the themes of the first key found among
\* the full code, its 4-character prefix and its 3-character prefix, and
\* for nothing when none is found; a code adds at most 1 to a theme's
\* count, so that the count of a theme is the number of codes whose first
\* key lists it.
C27_FirstKeyWins ==
    PatentRan =>
        LET themes == PatentThemes
            codes == profile.patent_cpc_codes
            count == [i \in 1..Len(themes) |-> Cardinality(CodesFor(themes[i].name))]
            most == CHOOSE m \in { count[k] : k \in 1..Len(themes) } :
                        \A k \in 1..Len(themes) : count[k] <= m
            pairs == [i \in 1..Len(themes) |-> <<themes[i].name, themes[i].confidence>>]
        IN  /\ Names(themes) =
                   UNION { FirstKeyThemes(codes[i]) : i \in 1..Len(codes) }
            /\ \A i, j \in 1..Len(themes) :
                   themes[i].name = themes[j].name => i = j
            /\ \A i \in 1..Len(themes) :
                   themes[i].confidence =
                       PatentConfidence(count[i], most, profile.patent_count)
            /\ "G06F17/30" \in SeqRange(codes) =>
                   pairs = << <<"software", 658>>, <<"artificial intelligence", 483>> >>
            /\ "H01L21/02" \in SeqRange(codes) =>
                   pairs = IF CodeAt("G06N ") < CodeAt("H01L21/02")
                           THEN << <<"artificial intelligence", 850>>,
                                   <<"software", 850>>,
                                   <<"semiconductors", 850>>,
                                   <<"electronics", 850>> >>
                           ELSE << <<"semiconductors", 850>>,
                                   <<"electronics", 850>>,
                                   <<"artificial intelligence", 850>>,
                                   <<"software", 850>> >>

\* the mapper has run on G06N3/08 and G06F17/30: G06N3/08 is found by its
\* 4-character prefix G06N although its 3-character prefix G06 is a key too
\* and lists "software" as G06N does, G06F17/30 is found by G06 only, and
\* "software" has the count 2, one from each code
C27_Witness ==
    /\ PatentRan
    /\ profile.patent_cpc_codes = <<"G06F17/30", "G06N3/08">>
    /\ KeysFound("G06N3/08") = {2, 3}
    /\ KeysFound("G06F17/30") = {3}
    /\ Len(PatentThemes) = 2
    /\ PatentThemes[1].name = "software"
    /\ PatentThemes[1].confidence = 658
    /\ PatentThemes[2].confidence = 483

\* the mapper has run on codes of which one matches no key, in an order in
\* which the code of the semiconductors comes first
C27_WitnessNoKey ==
    /\ PatentRan
    /\ profile.patent_cpc_codes = <<"H01L21/02", "A01B1/00", "G06N ">>
    /\ KeysFound("A01B1/00") = {}
    /\ KeysFound("G06N ") = {1, 2, 3}
    /\ Len(PatentThemes) = 4
    /\ PatentThemes[1].name = "semiconductors"

\* ------------------------------------------------------------------------
\* Claims about the names of a result and its saving (SpecMerge)
\* ------------------------------------------------------------------------

\* the ThemeResult of ticker AAA with the themes of the merged result
MergedResult ==
    [ticker |-> "AAA", name |-> "Acme",
     themes |-> [i \in 1..Len(result_themes) |->
                   [name |-> result_themes[i].name,
                    confidence |-> result_themes[i].confidence,
                    source |-> result_themes[i].source,
                    canonical_category |-> result_themes[i].canonical_category]]]

\* the tables before the save: new ones, and ones that hold the ticker and
\* another one with themes of the taxonomy
TablesBeforeSave ==
    LET earlier_result(t) ==
            [ticker |-> t, name |-> "Acme",
             themes |-> << StoredTheme("artificial intelligence", 900, None),
                           StoredTheme("cloud computing", 800, "technology") >>]
    IN  { EmptyTables,
          SaveThemeResult(EmptyTables, earlier_result("AAA")),
          SaveThemeResult(SaveThemeResult(EmptyTables, earlier_result("BBB")),
                          earlier_result("AAA")) }

\* C28: the theme names of a result are pairwise distinct and fixed points
\* of normalize, the raw themes of one normalized name give exactly one
\* merged theme, and saving the result does not violate the primary key
\* (ticker, theme_id) of stock_themes.
C28_DistinctCanonicalNames ==
    pc = "merged" =>
        /\ \A i, j \in 1..Len(result_themes) :
               result_themes[i].name = result_themes[j].name => i = j
        /\ \A i \in 1..Len(result_themes) :
               normalize(result_themes[i].name) = result_themes[i].name
        /\ \A i \in 1..Len(all_themes) :
               ~IsBlocked(normalize(all_themes[i].name)) =>
                   Cardinality({ k \in 1..Len(ranked) :
                                   ranked[k].name = normalize(all_themes[i].name) }) = 1
        /\ \A tables \in TablesBeforeSave :
               /\ SaveRaises(tables, MergedResult) = None
               /\ Cardinality(RowsOf(SaveThemeResult(tables, MergedResult).stock_themes,
                                      "AAA"))
                      = Len(result_themes)

\* the raw names "ai", "artificial intelligence" and "AI" of three
\* extractors became one theme of a result of two themes
C28_Witness ==
    /\ pc = "merged"
    /\ {"ai", "artificial intelligence", "AI"} \subseteq Names(all_themes)
    /\ Len(result_themes) = 2
    /\ Cardinality({ k \in 1..Len(result_themes) :
                       result_themes[k].name = "artificial intelligence" }) = 1

\* ------------------------------------------------------------------------
\* semantic/chunker.py: chunk_text.  A text is a sequence of characters: a
\* letter, a full stop and a space.
\* ------------------------------------------------------------------------

MaxTextLen == 7

MaxChunkSize == 3

Chars == {"a", ".", " "}

Texts == UNION { [1..n -> Chars] : n \in 0..MaxTextLen }

\* text.strip()
StripText(text) ==
    LET inked == { i \in 1..Len(text) : text[i] # " " }
    IN  IF inked = {} THEN <<>>
        ELSE SubSeq(text,
                    CHOOSE i \in inked : \A j \in inked : i <= j,
                    CHOOSE i \in inked : \A j \in inked : j <= i)

\* re.sub(r"\s+", " ", text): of a run of spaces the first one stays
CollapseSpaces(text) ==
    LET kept == Ascending({ i \in 1..Len(text) :
                              text[i] # " " \/ i = 1 \/ text[i - 1] # " " })
    IN  [k \in 1..Len(kept) |-> text[kept[k]]]

\* re.split(r"(?<=[.!?])\s+", text) of a text whose runs of spaces are
\* single spaces: it is cut at each space that follows a full stop
SplitSentences(text) ==
    LET cuts == Ascending({ i \in 2..Len(text) : text[i] = " " /\ text[i - 1] = "." })
        from(k) == IF k = 1 THEN 1 ELSE cuts[k - 1] + 1
        to(k) == IF k = Len(cuts) + 1 THEN Len(text) ELSE cuts[k] - 1
    IN  [k \in 1..(Len(cuts) + 1) |-> SubSeq(text, from(k), to(k))]

\* len(sentence.split())
WordCount(sentence) ==
    Cardinality({ i \in 1..Len(sentence) :
                    sentence[i] # " " /\ (i = 1 \/ sentence[i - 1] = " ") })

\* " ".join(current_chunk)
RECURSIVE JoinSentences(_)
JoinSentences(sentences) ==
    IF sentences = <<>> THEN <<>>
    ELSE IF Len(sentences) = 1 THEN Head(sentences)
    ELSE Head(sentences) \o <<" ">> \o JoinSentences(Tail(sentences))

\* the current chunk is emitted even when it is empty
RECURSIVE ChunkLoop_EmitsEmpty(_, _, _, _, _)
ChunkLoop_EmitsEmpty(chunks, current_chunk, current_word_count, sentences, chunk_size) ==
    IF sentences = <<>>
    THEN [chunks |-> chunks, current_chunk |-> current_chunk]
    ELSE LET sentence == Head(sentences)
             word_count == WordCount(sentence)
         IN  IF current_word_count + word_count > chunk_size
             THEN ChunkLoop_EmitsEmpty(Append(chunks, JoinSentences(current_chunk)),
                                       <<sentence>>, word_count,
                                       Tail(sentences), chunk_size)
             ELSE ChunkLoop_EmitsEmpty(chunks, Append(current_chunk, sentence),
                                       current_word_count + word_count,
                                       Tail(sentences), chunk_size)

\* for sentence in sentences: ...
RECURSIVE ChunkLoop(_, _, _, _, _)
ChunkLoop(chunks, current_chunk, current_word_count, sentences, chunk_size) ==
    IF sentences = <<>>
    THEN [chunks |-> chunks, current_chunk |-> current_chunk]
    ELSE LET sentence == Head(sentences)
             word_count == WordCount(sentence)
         IN  IF current_word_count + word_count > chunk_size /\ current_chunk # <<>>
             THEN ChunkLoop(Append(chunks, JoinSentences(current_chunk)),
                            <<sentence>>, word_count,
                            Tail(sentences), chunk_size)
             ELSE ChunkLoop(chunks, Append(current_chunk, sentence),
                            current_word_count + word_count,
                            Tail(sentences), chunk_size)

\* chunk_text(text, chunk_size)
ChunkText(text, chunk_size) ==
    IF text = <<>> \/ StripText(text) = <<>> THEN <<>>
    ELSE LET sentences == SplitSentences(CollapseSpaces(StripText(text)))
             loop == ChunkLoop(<<>>, <<>>, 0, sentences, chunk_size)
             last == JoinSentences(loop.current_chunk)
         IN  IF loop.current_chunk # <<>> /\ StripText(last) # <<>>
             THEN Append(loop.chunks, last)
             ELSE loop.chunks

InitChunker ==
    /\ ExtractIdle
    /\ norm = Idle /\ llm = Idle /\ db = Idle /\ batch = Idle
    /\ pipeline = Idle /\ semantic = Idle
    /\ \E text \in Texts, chunk_size \in 1..MaxChunkSize :
           chunker = [text |-> text, chunk_size |-> chunk_size,
                      chunks |-> <<>>, step |-> "given"]

\* chunks = chunk_text(text, chunk_size)
ChunkTextCall ==
    /\ chunker.step = "given"
    /\ chunker' = [chunker EXCEPT
                     !.chunks = ChunkText(chunker.text, chunker.chunk_size),
                     !.step = "chunked"]
    /\ UNCHANGED extractVars
    /\ UNCHANGED <<norm, llm, db, batch, pipeline, semantic>>

NextChunker == ChunkTextCall

SpecChunker == InitChunker /\ [][NextChunker]_vars

\* the sentences of the whitespace-normalized text
TextSentences ==
    IF StripText(chunker.text) = <<>> THEN <<>>
    ELSE SplitSentences(CollapseSpaces(StripText(chunker.text)))

\* the sentences of the chunks, chunk after chunk
RECURSIVE ConcatAll(_)
ConcatAll(seqs) ==
    IF seqs = <<>> THEN <<>> ELSE Head(seqs) \o ConcatAll(Tail(seqs))

\* C26: chunk_text never splits a sentence: every chunk is a run of whole
\* consecutive sentences, the chunks in order contain every sentence of the
\* whitespace-normalized text exactly once, no chunk is empty, and a chunk
\* has more than chunk_size words only when it is one single sentence.
C26_WholeSentences ==
    chunker # Idle /\ chunker.step = "chunked" =>
        /\ \A k \in 1..Len(chunker.chunks) :
               /\ chunker.chunks[k] # <<>>
               /\ chunker.chunks[k] = JoinSentences(SplitSentences(chunker.chunks[k]))
               /\ WordCount(chunker.chunks[k]) > chunker.chunk_size =>
                      Len(SplitSentences(chunker.chunks[k])) = 1
        /\ ConcatAll([k \in 1..Len(chunker.chunks) |->
                         SplitSentences(chunker.chunks[k])])
               = TextSentences

\* "a. a. a" with chunk_size 2: the first two sentences make one chunk and
\* the third the next
C26_Witness ==
    /\ chunker # Idle
    /\ chunker.step = "chunked"
    /\ chunker.text = <<"a", ".", " ", "a", ".", " ", "a">>
    /\ chunker.chunk_size = 2
    /\ chunker.chunks = << <<"a", ".", " ", "a", ".">>, <<"a">> >>

\* "a a a. a" with chunk_size 2: the first sentence alone exceeds the size
C26_WitnessLongSentence ==
    /\ chunker # Idle
    /\ chunker.step = "chunked"
    /\ chunker.text = <<"a", " ", "a", " ", "a", ".", " ">>
    /\ chunker.chunk_size = 2
    /\ chunker.chunks = << <<"a", " ", "a", " ", "a", ".">> >>

====
